---- MODULE Spec2Model ----
(***************************************************************************)
(* Rake planning optimizer of sailway-planner (src/lib/optimizer.ts, kept  *)
(* in src/src/lib/validation.ts lines 606-1238) with its business rules    *)
(* (src/lib/constants.ts, kept in src/unnamed/part_006).                   *)
(*                                                                         *)
(* Units.  Tonnages are integers in tenths of a tonne (58.8 T = 588), so   *)
(* that every capacity of WAGON_TYPES is exact.  Times are integers in     *)
(* milliseconds relative to a fixed epoch instant; Date.now() is the       *)
(* variable now.  A deadline_date is a record [kind, ms]: kind "date" is a *)
(* string that new Date() parses to the instant ms, "missing" is the empty *)
(* string, "invalid" a string whose getTime() is NaN.                      *)
(*                                                                         *)
(* Memory.  JavaScript arrays are references.  heap maps an address to the *)
(* four arrays stored there; the caller's arrays live at address "caller", *)
(* an optimizer instance holds in mem the address its private fields       *)
(* this.orders, this.inventory, this.wagons, this.loadingPoints point to.  *)
(***************************************************************************)
EXTENDS Integers, Sequences, FiniteSets, TLC

\* ---------------------------------------------------------------- bounds
MaxOrders == 2
MaxNow == 1

\* ------------------------------------------------------ business rules
WAGON_TYPES ==
  [ BOXN |-> [capacity |-> 588, costPerKm |-> 25],
    BCN  |-> [capacity |-> 600, costPerKm |-> 23],
    BCCN |-> [capacity |-> 620, costPerKm |-> 24],
    BOBR |-> [capacity |-> 550, costPerKm |-> 26] ]

minWagons == 50
maxWagons == 59
idealWagons == 58
\* minUtilization 0.75 as the fraction MinUtilNum / MinUtilDen
MinUtilNum == 3
MinUtilDen == 4
\* the 0.9 of targetCapacity as the fraction TargetNum / TargetDen
TargetNum == 9
TargetDen == 10

VALID_CITIES ==
  { "Bhilai", "Rourkela", "Durgapur", "Bokaro", "Burnpur", "Mumbai", "Kolkata",
    "Delhi", "Chennai", "Bangalore", "Hyderabad", "Pune", "Jamshedpur", "Ranchi",
    "Cuttack", "Visakhapatnam", "Nagpur", "Raipur", "Bilaspur", "Korba" }

PRODUCTS ==
  ("Iron Ore" :> <<"BOXN", "BCN", "BOBR">>) @@
  ("Coal" :> <<"BCN", "BCCN", "BOXN">>) @@
  ("Limestone" :> <<"BOXN", "BOBR">>) @@
  ("Dolomite" :> <<"BOXN">>) @@
  ("Coke" :> <<"BCN">>) @@
  ("Finished Steel" :> <<"BOXN">>)

DISTANCE_MATRIX ==
  [ Bhilai   |-> [Mumbai |-> 1150, Kolkata |-> 1200, Delhi |-> 1350, Chennai |-> 1450],
    Rourkela |-> [Mumbai |-> 1800, Kolkata |-> 450,  Delhi |-> 1650, Chennai |-> 1900],
    Durgapur |-> [Mumbai |-> 1950, Kolkata |-> 180,  Delhi |-> 1450, Chennai |-> 1850],
    Bokaro   |-> [Mumbai |-> 1700, Kolkata |-> 400,  Delhi |-> 1300, Chennai |-> 1800] ]

DefaultDistance == 800

getDistance(origin, destination) ==
  IF origin \in DOMAIN DISTANCE_MATRIX /\ destination \in DOMAIN DISTANCE_MATRIX[origin]
  THEN DISTANCE_MATRIX[origin][destination]
  ELSE DefaultDistance

DAY == 86400000
MaxOrderTonnage == 100000
MinRakeTonnage == 20000
DefaultCapacity == 600
HOUR == 3600000

\* COSTS; the multipliers are kept as integers: costPerKm in tenths,
\* distanceMultiplier 1.5 as 15 tenths, priorityPremium - 1 in tenths
baseRakeCharge == 25000
DistanceMultiplier10 == 15
loadingCostPerTonne == 75
demurragePerHour == 1500
idleFreightPerDay == 8000
penaltyPerDayLate == 5000
PremiumMinusOne10 == [critical |-> 5, high |-> 2, medium |-> 0, low |-> -1]
DefaultCostPerKm10 == 25
atRiskThresholdDays == 3
FreeLoadingHours == 24

PriorityLevels == {"critical", "high", "medium", "low"}
OperationalStatuses == {"active", "inactive", "maintenance"}
priorityValues == [critical |-> 4, high |-> 3, medium |-> 2, low |-> 1]

Null == "null"

\* ------------------------------------------------------------- helpers
Min(a, b) == IF a <= b THEN a ELSE b
Max(a, b) == IF a >= b THEN a ELSE b
\* Math.ceil(a / b) and Math.floor(a / b) for b > 0
CeilDiv(a, b) == -((-a) \div b)
FloorDiv(a, b) == a \div b

RECURSIVE SumSeq(_)
SumSeq(q) == IF q = <<>> THEN 0 ELSE Head(q) + SumSeq(Tail(q))

\* indices of q whose element satisfies Test, ascending = Array.prototype.filter
RECURSIVE FilterIdx(_, _, _)
FilterIdx(q, Test(_), k) ==
  IF k > Len(q) THEN <<>>
  ELSE IF Test(q[k]) THEN <<k>> \o FilterIdx(q, Test, k + 1)
       ELSE FilterIdx(q, Test, k + 1)

\* Array.prototype.find: the first element satisfying Test, as its index; 0 if none
FindIdx(q, Test(_)) ==
  LET hits == {k \in 1..Len(q) : Test(q[k])}
  IN IF hits = {} THEN 0 ELSE CHOOSE k \in hits : \A j \in hits : k <= j

\* Array.prototype.includes on a string list kept as a set
Includes(set, x) == x \in set

\* ---------------------------------------------------------- validation
NoError == [section |-> "none", idx |-> -1, rule |-> "none"]
Err(section, idx, rule) == [section |-> section, idx |-> idx, rule |-> rule]

\* the checks of one order, in the order of the forEach body
OrderRule(order) ==
  IF order.tonnage_required <= 0 THEN "tonnage_positive"
  ELSE IF order.tonnage_required > MaxOrderTonnage THEN "tonnage_limit"
  ELSE IF order.deadline_date.kind = "missing" THEN "deadline_missing"
  ELSE IF order.deadline_date.kind = "invalid" THEN "deadline_invalid"
  ELSE IF ~Includes(PriorityLevels, order.priority_level) THEN "priority"
  ELSE IF ~Includes(VALID_CITIES, order.destination) THEN "destination"
  ELSE "ok"

InventoryRule(item) ==
  IF item.tonnage_available < 0 THEN "tonnage_negative"
  ELSE IF ~Includes(VALID_CITIES, item.stockyard_name) THEN "stockyard"
  ELSE "ok"

WagonRule(wagon) ==
  IF wagon.available_count < 0 THEN "available_negative"
  ELSE IF wagon.total_count < wagon.available_count THEN "total_lt_available"
  ELSE IF wagon.wagon_type \notin DOMAIN WAGON_TYPES THEN "wagon_type"
  ELSE "ok"

LoadingPointRule(lp) ==
  IF lp.capacity_tph <= 0 THEN "capacity"
  ELSE IF ~Includes(OperationalStatuses, lp.operational_status) THEN "status"
  ELSE "ok"

\* forEach that throws at the first record whose rule fails
FirstFailure(section, q, Rule(_)) ==
  LET k == FindIdx(q, LAMBDA r : Rule(r) # "ok")
  IN IF k = 0 THEN NoError ELSE Err(section, k - 1, Rule(q[k]))

OrdersCheck(orders) ==
  IF Len(orders) = 0 THEN Err("orders", -1, "empty")
  ELSE FirstFailure("orders", orders, OrderRule)

InventoryCheckNonEmpty(inventory) ==
  IF Len(inventory) = 0 THEN Err("inventory", -1, "empty")
  ELSE FirstFailure("inventory", inventory, InventoryRule)

InventoryCheck(inventory) == FirstFailure("inventory", inventory, InventoryRule)

WagonsCheck(wagons) ==
  IF Len(wagons) = 0 THEN Err("wagons", -1, "empty")
  ELSE FirstFailure("wagons", wagons, WagonRule)

LoadingPointsCheck(loadingPoints) ==
  FirstFailure("loadingPoints", loadingPoints, LoadingPointRule)

validateInputsWagonsFirst(a) ==
  IF OrdersCheck(a.orders) # NoError THEN OrdersCheck(a.orders)
  ELSE IF WagonsCheck(a.wagons) # NoError THEN WagonsCheck(a.wagons)
  ELSE IF InventoryCheck(a.inventory) # NoError THEN InventoryCheck(a.inventory)
  ELSE LoadingPointsCheck(a.loadingPoints)

\* the error validateInputs throws, NoError if it returns
validateInputs(a) ==
  IF OrdersCheck(a.orders) # NoError THEN OrdersCheck(a.orders)
  ELSE IF InventoryCheck(a.inventory) # NoError THEN InventoryCheck(a.inventory)
  ELSE IF WagonsCheck(a.wagons) # NoError THEN WagonsCheck(a.wagons)
  ELSE LoadingPointsCheck(a.loadingPoints)

\* ------------------------------------------------------ Phase 1: prioritize
\* new Date(deadline).getTime() of a deadline that passed validation
DeadlineMs(order) == order.deadline_date.ms

getDeadlineUrgency(order, t) ==
  LET daysUntil == FloorDiv(DeadlineMs(order) - t, DAY)
  IN IF daysUntil <= 3 THEN 5
     ELSE IF daysUntil <= 7 THEN 4
     ELSE IF daysUntil <= 14 THEN 3
     ELSE IF daysUntil <= 30 THEN 2
     ELSE 1

\* the score without its volume term
calculateOrderScoreWithoutVolume(order, t) ==
  priorityValues[order.priority_level] * 40000
  + getDeadlineUrgency(order, t) * 10000
\* the composite score times 100000: priority x 0.4 + urgency x 0.1 +
\* min(tonnes / 1000, 5) x 0.1, with tonnage_required in tenths of a tonne.
\* The code computes it in doubles: two orders compare as here when their
\* scores differ, and when they have the same priority, urgency and tonnage;
\* the inputs hold no two orders whose scores are equal otherwise.
calculateOrderScore(order, t) ==
  priorityValues[order.priority_level] * 40000
  + getDeadlineUrgency(order, t) * 10000
  + Min(order.tonnage_required, 50000)

\* Array.prototype.sort with comparator scoreB - scoreA: stable, descending
RECURSIVE InsertByScore(_, _, _)
InsertByScore(sorted, order, t) ==
  IF sorted = <<>> THEN <<order>>
  ELSE IF calculateOrderScore(Head(sorted), t) >= calculateOrderScore(order, t)
       THEN <<Head(sorted)>> \o InsertByScore(Tail(sorted), order, t)
       ELSE <<order>> \o sorted

RECURSIVE prioritizeOrders(_, _)
prioritizeOrders(orders, t) ==
  IF orders = <<>> THEN <<>>
  ELSE InsertByScore(prioritizeOrders(SubSeq(orders, 1, Len(orders) - 1), t),
                     orders[Len(orders)], t)

\* ----------------------------------------------------------- Phase 2: group
GroupKeyProductOnly(order) == <<order.product_name>>

\* the Map key `${product_name}-${destination}`; a validated destination holds
\* no hyphen, so the key determines the pair
GroupKey(order) == <<order.product_name, order.destination>>

\* keys in Map insertion order (first occurrence)
RECURSIVE KeysInOrder(_, _)
KeysInOrder(orders, seen) ==
  IF orders = <<>> THEN <<>>
  ELSE IF GroupKey(Head(orders)) \in seen THEN KeysInOrder(Tail(orders), seen)
       ELSE <<GroupKey(Head(orders))>>
            \o KeysInOrder(Tail(orders), seen \cup {GroupKey(Head(orders))})

OrdersOfKey(orders, key) == SelectSeq(orders, LAMBDA o : GroupKey(o) = key)

GroupTonnage(group) ==
  SumSeq([k \in 1..Len(group) |-> group[k].tonnage_required])

RECURSIVE GroupsOfKeys(_, _)
GroupsOfKeys(orders, keys) ==
  IF keys = <<>> THEN <<>>
  ELSE LET group == OrdersOfKey(orders, Head(keys))
       IN (IF GroupTonnage(group) >= MinRakeTonnage THEN <<group>> ELSE <<>>)
          \o GroupsOfKeys(orders, Tail(keys))

groupOrdersOnePerOrder(orders) ==
  LET big == SelectSeq(orders, LAMBDA o : o.tonnage_required >= MinRakeTonnage)
  IN [k \in 1..Len(big) |-> <<big[k]>>]

groupOrders(orders) == GroupsOfKeys(orders, KeysInOrder(orders, {}))

\* ------------------------------------------------- resource lookups
getWagonCapacity(wagonType) ==
  IF wagonType \in DOMAIN WAGON_TYPES THEN WAGON_TYPES[wagonType].capacity
  ELSE DefaultCapacity

\* first type of the product's list that some wagon row offers with minWagons
selectOptimalWagonType(wagons, productName) ==
  IF productName \notin DOMAIN PRODUCTS THEN Null
  ELSE LET types == PRODUCTS[productName]
           k == FindIdx(types, LAMBDA wt :
                  FindIdx(wagons, LAMBDA w :
                    w.wagon_type = wt /\ w.available_count >= minWagons) # 0)
       IN IF k = 0 THEN Null ELSE types[k]

\* index of the first element of q with the greatest Key among the indices idx:
\* filter, stable sort descending, element [0]
FirstMax(q, idx, Key(_)) ==
  LET cand == {idx[j] : j \in 1..Len(idx)}
      best == {k \in cand : \A j \in cand : Key(q[k]) >= Key(q[j])}
  IN CHOOSE k \in best : \A j \in best : k <= j

findBestStockyardCombined(inventory, productName, tonnageNeeded) ==
  LET rows == FilterIdx(inventory, LAMBDA inv : inv.product_name = productName, 1)
  IN IF Len(rows) = 0
        \/ SumSeq([j \in 1..Len(rows) |-> inventory[rows[j]].tonnage_available])
             < tonnageNeeded
     THEN Null
     ELSE inventory[FirstMax(inventory, rows,
                             LAMBDA inv : inv.tonnage_available)].stockyard_name

findBestStockyard(inventory, productName, tonnageNeeded) ==
  LET suitable == FilterIdx(inventory, LAMBDA inv :
                    inv.product_name = productName
                    /\ inv.tonnage_available >= tonnageNeeded, 1)
  IN IF Len(suitable) = 0 THEN Null
     ELSE inventory[FirstMax(inventory, suitable,
                             LAMBDA inv : inv.tonnage_available)].stockyard_name

findBestLoadingPoint(loadingPoints, productName, stockyard) ==
  IF stockyard = Null THEN Null
  ELSE LET suitable == FilterIdx(loadingPoints, LAMBDA lp :
                         lp.operational_status = "active"
                         /\ productName \in lp.compatible_products, 1)
       IN IF Len(suitable) = 0 THEN Null
          ELSE loadingPoints[FirstMax(loadingPoints, suitable,
                                      LAMBDA lp : lp.capacity_tph)].point_name

checkWagonAvailabilityAnyRow(wagons, wagonType, count) ==
  FindIdx(wagons, LAMBDA w : w.wagon_type = wagonType /\ w.available_count >= count) # 0

checkWagonAvailability(wagons, wagonType, count) ==
  LET k == FindIdx(wagons, LAMBDA w : w.wagon_type = wagonType)
  IN IF k = 0 THEN FALSE ELSE wagons[k].available_count >= count

\* a lookup of the row by product alone
consumeInventoryByProduct(inventory, stockyard, product, tonnage) ==
  LET k == FindIdx(inventory, LAMBDA i : i.product_name = product)
  IN IF k = 0 THEN inventory
     ELSE [inventory EXCEPT ![k].tonnage_available = @ - tonnage]

consumeInventory(inventory, stockyard, product, tonnage) ==
  LET k == FindIdx(inventory, LAMBDA i :
             i.stockyard_name = stockyard /\ i.product_name = product)
  IN IF k = 0 THEN inventory
     ELSE [inventory EXCEPT ![k].tonnage_available = @ - tonnage]

consumeWagons(wagons, wagonType, count) ==
  LET k == FindIdx(wagons, LAMBDA w : w.wagon_type = wagonType)
  IN IF k = 0 THEN wagons
     ELSE [wagons EXCEPT ![k].available_count = @ - count]

\* Math.min(Math.ceil(tonnage / wagonCapacity), maxWagons)
RakeWagonCountUnclamped(tonnage, wagonCapacity) == CeilDiv(tonnage, wagonCapacity)
RakeWagonCountWithSpare(tonnage, wagonCapacity) ==
  Min(CeilDiv(tonnage, wagonCapacity) + 1, maxWagons)

RakeWagonCount(tonnage, wagonCapacity) ==
  Min(CeilDiv(tonnage, wagonCapacity), maxWagons)

\* utilization >= minUtilization for utilization = tonnage / (count x capacity)
MeetsMinUtilization(tonnage, wagonCount, wagonCapacity) ==
  MinUtilDen * tonnage >= MinUtilNum * wagonCount * wagonCapacity

\* ------------------------------------------------- greedy fill of one rake
\* the for loop of selectOrdersForRake from position k with the running
\* selection sel (indices into orders) and total; returns [selected, total]
RECURSIVE SelectFrom(_, _, _, _, _)
SelectFrom(orders, wagonCapacity, k, sel, total) ==
  IF k > Len(orders) THEN [selected |-> sel, totalTonnage |-> total]
  ELSE IF total + orders[k].tonnage_required <= maxWagons * wagonCapacity
       THEN LET t2 == total + orders[k].tonnage_required
            IN IF TargetDen * t2 >= TargetNum * idealWagons * wagonCapacity
               THEN [selected |-> Append(sel, k), totalTonnage |-> t2]
               ELSE SelectFrom(orders, wagonCapacity, k + 1, Append(sel, k), t2)
       ELSE SelectFrom(orders, wagonCapacity, k + 1, sel, total)

\* a scan that ends at the first order that does not fit
selectOrdersForRakeUntilMisfit(orders, wagonCapacity) ==
  LET PrefixSum(m) == SumSeq([j \in 1..m |-> orders[j].tonnage_required])
      Taken == {m \in 0..Len(orders) :
                  /\ PrefixSum(m) <= maxWagons * wagonCapacity
                  /\ \A j \in 0..(m - 1) :
                       TargetDen * PrefixSum(j) < TargetNum * idealWagons * wagonCapacity}
      last == CHOOSE m \in Taken : \A j \in Taken : j <= m
  IN [selectedOrders |-> SubSeq(orders, 1, last),
      totalTonnage |-> PrefixSum(last),
      selected |-> [j \in 1..last |-> j]]
\* selected holds the positions in orders of the objects pushed to the result
selectOrdersForRake(orders, wagonCapacity) ==
  LET r == SelectFrom(orders, wagonCapacity, 1, <<>>, 0)
  IN [selectedOrders |-> [j \in 1..Len(r.selected) |-> orders[r.selected[j]]],
      totalTonnage |-> r.totalTonnage,
      selected |-> r.selected]

\* ------------------------------------------------------------ cost and SLA
\* Math.round of a value given in thousandths
Round1000(n) == FloorDiv(n + 500, 1000)

calculateSLAComplianceNoFloor(orders, t) ==
  LET Deduction(o) ==
        IF DeadlineMs(o) - t < 0 THEN 30
        ELSE IF DeadlineMs(o) - t < atRiskThresholdDays * DAY THEN 10
        ELSE 0
  IN 100 - SumSeq([k \in 1..Len(orders) |-> Deduction(orders[k])])

calculateSLACompliance(orders, t) ==
  LET Deduction(o) ==
        IF DeadlineMs(o) - t < 0 THEN 30
        ELSE IF DeadlineMs(o) - t < atRiskThresholdDays * DAY THEN 10
        ELSE 0
  IN Max(0, 100 - SumSeq([k \in 1..Len(orders) |-> Deduction(orders[k])]))

\* totalCost: the sum of the seven unrounded components
TotalOfWithoutPremium(c) ==
  c.base_freight + c.distance_cost + c.loading_cost + c.demurrage + c.penalty
  + c.idle_freight

TotalOf(c) ==
  c.base_freight + c.distance_cost + c.loading_cost + c.demurrage + c.penalty
  + c.idle_freight + c.priority_premium

\* the defensive throws of buildRakePlan
BuildThrows(p) ==
  \/ p.wagonCount <= 0
  \/ getDistance(p.stockyard, p.destination) < 0
  \/ p.totalTonnage <= 0

LoadingHoursPerHundredTonnes(totalTonnage) == CeilDiv(2 * totalTonnage, 1000)

\* Math.ceil((totalTonnage / 1000) * 2), totalTonnage in tenths of a tonne
LoadingHours(totalTonnage) == CeilDiv(2 * totalTonnage, 10000)

\* buildRakePlan at clock reading t.  p.utilNum / p.utilDen is the unrounded
\* utilization.  Money is computed exactly, in thousandths, and rounded as
\* Math.round does; the code computes it in doubles, so that a rounded
\* component can be one unit off where the exact value ends in .5 (2.3, 2.6,
\* 1.2 - 1 and 0.9 - 1 are not exact in binary).  priorityScore is not kept:
\* nothing reads it.
buildRakePlan(p, t) ==
  LET \* both callers pass one city name, never an array
      destinations == <<p.destination>>
      isMultiDest == Len(destinations) > 1
      distance == IF isMultiDest
                  THEN SumSeq([k \in 1..Len(destinations) |->
                                 getDistance(p.stockyard, destinations[k])])
                       \div Len(destinations)
                  ELSE getDistance(p.stockyard, destinations[1])
      costPerKm10 == IF p.wagonType \in DOMAIN WAGON_TYPES
                     THEN WAGON_TYPES[p.wagonType].costPerKm
                     ELSE DefaultCostPerKm10
      n == Len(p.orders)
      baseFreight == baseRakeCharge * 1000
      distanceCost == p.wagonCount * costPerKm10 * distance * DistanceMultiplier10 * 10
      loadingCost == p.totalTonnage * loadingCostPerTonne * 100
      loadingHours == LoadingHours(p.totalTonnage)
      demurrage == IF loadingHours > FreeLoadingHours
                   THEN (loadingHours - FreeLoadingHours) * demurragePerHour * 1000
                   ELSE 0
      DaysLate(o) == Max(0, CeilDiv(t - DeadlineMs(o), DAY))
      penalty == SumSeq([k \in 1..n |-> DaysLate(p.orders[k]) * penaltyPerDayLate]) * 1000
      idleFreight == IF MinUtilDen * p.utilNum < MinUtilNum * p.utilDen
                     THEN FloorDiv(idleFreightPerDay * (p.utilDen - p.utilNum) * 10,
                                   p.utilDen) * 100
                     ELSE 0
      prioritySum == SumSeq([k \in 1..n |-> priorityValues[p.orders[k].priority_level]])
      priorityLevel == IF 2 * prioritySum >= 7 * n THEN "critical"
                       ELSE IF 2 * prioritySum >= 5 * n THEN "high"
                       ELSE IF 2 * prioritySum >= 3 * n THEN "medium"
                       ELSE "low"
      priorityPremium == ((baseFreight + distanceCost) \div 10)
                         * PremiumMinusOne10[priorityLevel]
      totalCost == TotalOf([ base_freight |-> baseFreight,
                             distance_cost |-> distanceCost,
                             loading_cost |-> loadingCost, demurrage |-> demurrage,
                             penalty |-> penalty, idle_freight |-> idleFreight,
                             priority_premium |-> priorityPremium ])
  IN [ rakeId |-> p.rakeNumber,
       orders |-> p.orders,
       totalTonnage |-> p.totalTonnage,
       wagonType |-> p.wagonType,
       wagonCount |-> p.wagonCount,
       utilization |-> FloorDiv(200 * p.utilNum + p.utilDen, 2 * p.utilDen),
       cost |-> Round1000(totalCost),
       costBreakdown |->
         [ base_freight |-> Round1000(baseFreight),
           distance_cost |-> Round1000(distanceCost),
           loading_cost |-> Round1000(loadingCost),
           demurrage |-> Round1000(demurrage),
           penalty |-> Round1000(penalty),
           idle_freight |-> Round1000(idleFreight),
           priority_premium |-> Round1000(priorityPremium),
           total |-> Round1000(totalCost) ],
       originStockyard |-> p.stockyard,
       destinations |-> destinations,
       loadingPoint |-> p.loadingPoint,
       estimatedDispatchTime |-> t + loadingHours * HOUR,
       slaComplianceScore |-> calculateSLACompliance(p.orders, t),
       multiDestination |-> isMultiDest ]

\* rakeNumber of a group plan (1, 2, ... per group) and of a single-order plan
\* (Date.now()); the rakeId `RAKE-<year>-<rakeNumber padded to 4 digits>` is
\* kept as this rakeNumber: padStart never truncates, and the year is the same
\* over the clock window of the model
GroupRakeNumber(k) == [clock |-> FALSE, n |-> k]
ClockRakeNumber(t) == [clock |-> TRUE, n |-> t]

\* ------------------------------------------------- production recommender
\* a null or undefined element of the orders array
NullOrder ==
  [ id |-> 0, product_name |-> Null, tonnage_required |-> 0, priority_level |-> Null,
    deadline_date |-> [kind |-> "missing", ms |-> 0], destination |-> Null ]

\* the checks of validateInputData on one record; "" is the empty product
\* name or wagon type
RecommenderOrderRule(order) ==
  IF order = NullOrder THEN "ok"
  ELSE IF order.tonnage_required <= 0 THEN "tonnage_positive"
  ELSE IF order.tonnage_required > MaxOrderTonnage THEN "tonnage_limit"
  ELSE IF order.deadline_date.kind = "missing" THEN "deadline_missing"
  ELSE IF order.deadline_date.kind = "invalid" THEN "deadline_invalid"
  ELSE IF ~Includes(PriorityLevels, order.priority_level) THEN "priority"
  ELSE IF order.product_name = "" THEN "product_name"
  ELSE "ok"

RecommenderInventoryRule(item) ==
  IF item.tonnage_available < 0 THEN "tonnage_negative"
  ELSE IF item.product_name = "" THEN "product_name"
  ELSE "ok"

RecommenderWagonRule(wagon) ==
  IF wagon.available_count < 0 THEN "available_negative"
  ELSE IF wagon.wagon_type = "" THEN "wagon_type"
  ELSE "ok"

\* the error validateInputData throws, NoError if it returns
validateInputData(orders, inventory, wagons) ==
  IF Len(orders) = 0 THEN Err("orders", -1, "empty")
  ELSE IF FirstFailure("orders", orders, RecommenderOrderRule) # NoError
    THEN FirstFailure("orders", orders, RecommenderOrderRule)
  ELSE IF FirstFailure("inventory", inventory, RecommenderInventoryRule) # NoError
    THEN FirstFailure("inventory", inventory, RecommenderInventoryRule)
  ELSE FirstFailure("wagons", wagons, RecommenderWagonRule)

\* the keys of groupOrdersByProduct in the order Object.entries lists them:
\* insertion order (the product names of the orders table are names of
\* BUSINESS_RULES.PRODUCTS, none of them an integer index)
RECURSIVE ProductsInOrder(_, _)
ProductsInOrder(orders, seen) ==
  IF orders = <<>> THEN <<>>
  ELSE IF Head(orders).product_name \in seen THEN ProductsInOrder(Tail(orders), seen)
       ELSE <<Head(orders).product_name>>
            \o ProductsInOrder(Tail(orders), seen \cup {Head(orders).product_name})

groupOrdersByProduct(orders, productName) ==
  SelectSeq(orders, LAMBDA o : o.product_name = productName)

\* tenths of a tonne the available wagons of the product's types carry
calculateTransportCapacity(wagons, productName) ==
  IF productName \notin DOMAIN PRODUCTS THEN 0
  ELSE LET types == PRODUCTS[productName]
           Carried(wt) ==
             LET k == FindIdx(wagons, LAMBDA w : w.wagon_type = wt)
             IN IF k = 0 THEN 0 ELSE wagons[k].available_count * getWagonCapacity(wt)
       IN SumSeq([j \in 1..Len(types) |-> Carried(types[j])])

UrgencyPointsNoneBeyondTwoWeeks(orders, t) ==
  LET Points(o) ==
        IF DeadlineMs(o) - t < 0 THEN 100
        ELSE IF DeadlineMs(o) - t < 3 * DAY THEN 80
        ELSE IF DeadlineMs(o) - t < 7 * DAY THEN 50
        ELSE IF DeadlineMs(o) - t < 14 * DAY THEN 25
        ELSE 0
  IN SumSeq([k \in 1..Len(orders) |-> Points(orders[k])])

\* the sum of the urgency points of the orders; calculateUrgencyScore is
\* min(100, this sum / orders.length)
UrgencyPoints(orders, t) ==
  LET Points(o) ==
        IF DeadlineMs(o) - t < 0 THEN 100
        ELSE IF DeadlineMs(o) - t < 3 * DAY THEN 80
        ELSE IF DeadlineMs(o) - t < 7 * DAY THEN 50
        ELSE IF DeadlineMs(o) - t < 14 * DAY THEN 25
        ELSE 10
  IN SumSeq([k \in 1..Len(orders) |-> Points(orders[k])])

\* Math.round(demandGap / 100) * 100: rounding to the nearest 100 T instead
recommendedTonnageNearest(demandGap) == FloorDiv(demandGap + 500, 1000) * 1000
\* Math.ceil(demandGap / 100) * 100, in tenths of a tonne
recommendedTonnage(demandGap) == CeilDiv(demandGap, 1000) * 1000

\* Math.round of a value in tenths
RoundTenths(n) == FloorDiv(n + 5, 10)

\* the null analyzeProductDemand returns for a product without demand gap
NoRecommendation == [product_name |-> Null]

\* priorityScore of analyzeProductDemand, kept as the fraction num / den with
\* den = 2000 x orders.length:
\*   demandGap / 1000 x 20 + avgPriority x 25 + urgencyScore x 30
\*   + transportCapacity / 1000 x 15 + (currentInventory < 500 ? 10 : 0)
priorityScore(productName, orders, inventory, wagons, t) ==
  LET n == Len(orders)
      totalDemand == SumSeq([k \in 1..n |-> orders[k].tonnage_required])
      rows == SelectSeq(inventory, LAMBDA inv : inv.product_name = productName)
      currentInventory == SumSeq([k \in 1..Len(rows) |-> rows[k].tonnage_available])
      demandGap == Max(0, totalDemand - currentInventory)
      transportCapacity == calculateTransportCapacity(wagons, productName)
      prioritySum == SumSeq([k \in 1..n |-> priorityValues[orders[k].priority_level]])
      urgency == Min(100 * n, UrgencyPoints(orders, t))
      den == 2000 * n
  IN [ num |-> 4 * n * demandGap + 50000 * prioritySum + 60000 * urgency
               + 3 * n * transportCapacity
               + (IF currentInventory < 5000 THEN 10 * den ELSE 0),
       den |-> den ]

\* analyzeProductDemand; NoRecommendation if it returns null
analyzeProductDemand(productName, orders, inventory, wagons, t) ==
  LET n == Len(orders)
      totalDemand == SumSeq([k \in 1..n |-> orders[k].tonnage_required])
      rows == SelectSeq(inventory, LAMBDA inv : inv.product_name = productName)
      currentInventory == SumSeq([k \in 1..Len(rows) |-> rows[k].tonnage_available])
      demandGap == Max(0, totalDemand - currentInventory)
      transportCapacity == calculateTransportCapacity(wagons, productName)
      prioritySum == SumSeq([k \in 1..n |-> priorityValues[orders[k].priority_level]])
      urgency == Min(100 * n, UrgencyPoints(orders, t))
      scoreDen == priorityScore(productName, orders, inventory, wagons, t).den
      scoreNum == priorityScore(productName, orders, inventory, wagons, t).num
  IN IF n = 0 THEN NoRecommendation
     ELSE IF demandGap <= 0 THEN NoRecommendation
     ELSE [ product_name |-> productName,
            recommended_tonnage |-> recommendedTonnage(demandGap),
            priority_score |-> Min(100, FloorDiv(2 * scoreNum + scoreDen, 2 * scoreDen)),
            reasoning |->
              [ demand_gap |-> RoundTenths(demandGap),
                pending_orders |-> n,
                avg_order_priority |-> FloorDiv(200 * prioritySum + n, 2 * n),
                transport_capacity |-> RoundTenths(transportCapacity),
                current_inventory |-> RoundTenths(currentInventory),
                urgency_score |-> FloorDiv(2 * urgency + n, 2 * n) ],
            based_on_orders |-> n,
            transport_capacity_available |-> RoundTenths(transportCapacity),
            current_inventory |-> RoundTenths(currentInventory) ]

\* Array.prototype.sort with comparator b.priority_score - a.priority_score
RECURSIVE InsertByPriorityScore(_, _)
InsertByPriorityScore(sorted, rec) ==
  IF sorted = <<>> THEN <<rec>>
  ELSE IF Head(sorted).priority_score >= rec.priority_score
       THEN <<Head(sorted)>> \o InsertByPriorityScore(Tail(sorted), rec)
       ELSE <<rec>> \o sorted

RECURSIVE SortByPriorityScore(_)
SortByPriorityScore(recs) ==
  IF recs = <<>> THEN <<>>
  ELSE InsertByPriorityScore(SortByPriorityScore(SubSeq(recs, 1, Len(recs) - 1)),
                             recs[Len(recs)])

RECURSIVE RecommendationsOf(_, _, _, _, _)
RecommendationsOf(products, orders, inventory, wagons, t) ==
  IF products = <<>> THEN <<>>
  ELSE LET rec == analyzeProductDemand(Head(products),
                    groupOrdersByProduct(orders, Head(products)), inventory, wagons, t)
       IN (IF rec # NoRecommendation /\ rec.priority_score > 50 THEN <<rec>> ELSE <<>>)
          \o RecommendationsOf(Tail(products), orders, inventory, wagons, t)

generateRecommendations(orders, inventory, wagons, t) ==
  SortByPriorityScore(
    RecommendationsOf(ProductsInOrder(orders, {}), orders, inventory, wagons, t))

\* a ProductionRecommender: pc "new", "failed" (constructor threw), "ready",
\* "done" (generateRecommendations returned); orders is its own filtered array,
\* mem the address its inventory and wagons fields point to (the arrays passed
\* in, not copies)
NewRecommender ==
  [ pc |-> "new", error |-> NoError, orders |-> <<>>, mem |-> Null,
    recommendations |-> <<>> ]

\* ------------------------------------------------- Plans page persistence
\* the rakeIds of the plans in the order a Map keeps its keys: first occurrence
RECURSIVE RakeIdsInOrder(_, _)
RakeIdsInOrder(rakePlans, seen) ==
  IF rakePlans = <<>> THEN <<>>
  ELSE IF Head(rakePlans).rakeId \in seen THEN RakeIdsInOrder(Tail(rakePlans), seen)
       ELSE <<Head(rakePlans).rakeId>>
            \o RakeIdsInOrder(Tail(rakePlans), seen \cup {Head(rakePlans).rakeId})

\* Array.from(new Map(rakePlans.map(p => [p.rakeId, p])).values()): per
\* rakeId the last plan that has it
uniquePlans(rakePlans) ==
  LET ids == RakeIdsInOrder(rakePlans, {})
      Last(id) == CHOOSE k \in 1..Len(rakePlans) :
                    /\ rakePlans[k].rakeId = id
                    /\ \A j \in (k + 1)..Len(rakePlans) : rakePlans[j].rakeId # id
  IN [k \in 1..Len(ids) |-> rakePlans[Last(ids[k])]]

\* the row of rake_plans made of a plan, without its id
planInsert(plan) ==
  [ rake_id |-> plan.rakeId, assigned_loading_point |-> plan.loadingPoint,
    origin_stockyard |-> plan.originStockyard, wagon_type |-> plan.wagonType,
    wagon_count |-> plan.wagonCount, total_tonnage |-> plan.totalTonnage,
    utilization_percentage |-> plan.utilization,
    estimated_dispatch_time |-> plan.estimatedDispatchTime,
    estimated_total_cost |-> plan.cost ]

\* upsert(planInserts, {onConflict: "rake_id"}): a row whose rake_id the table
\* holds replaces that row and keeps its id, any other row is added under a
\* new id
RECURSIVE upsert(_, _)
upsert(table, inserts) ==
  IF inserts = <<>> THEN table
  ELSE LET row == Head(inserts)
           k == FindIdx(table, LAMBDA r : r.rake_id = row.rake_id)
       IN upsert(IF k = 0 THEN Append(table, [id |-> Len(table) + 1] @@ row)
                 ELSE [table EXCEPT ![k] = [id |-> table[k].id] @@ row],
                 Tail(inserts))

\* the link rows of the plans: for each plan the row byRakeId has for its
\* rakeId, for each of its orders one link to that row
RECURSIVE orderLinks(_, _)
orderLinks(rakePlans, upsertedPlans) ==
  IF rakePlans = <<>> THEN <<>>
  ELSE LET plan == Head(rakePlans)
           k == FindIdx(upsertedPlans, LAMBDA r : r.rake_id = plan.rakeId)
       IN (IF k = 0 THEN <<>>
           ELSE [j \in 1..Len(plan.orders) |->
                   [ rake_plan_id |-> upsertedPlans[k].id,
                     order_id |-> plan.orders[j].id,
                     tonnage_allocated |-> plan.orders[j].tonnage_required ]])
          \o orderLinks(Tail(rakePlans), upsertedPlans)

\* the mutation of the Plans page after optimize(): pc "idle", "failed" (no
\* plan, thrown), "plans" (rake_plans written), "links" (rake_plan_orders
\* written), "done" (statuses written, returned); the tables start empty
NewPage ==
  [pc |-> "idle", rake_plans |-> <<>>, rake_plan_orders |-> <<>>, planned |-> {}]

\* ------------------------------------------------------- optimizer state
\* The locals of one RakeOptimizer instance and of its optimize() call:
\*   pc      "new" not constructed, "failed" constructor threw, "ready"
\*           constructed, "groups" in Step 3, "singles" in Step 4, "done"
\*           optimize returned, "threw" optimize threw
\*   mem     address of the instance's private arrays
\*   gi      index of the group Step 3 is at; inGroup: inside
\*           createRakePlansForGroup, with its locals wagonType,
\*           remainingOrders and rakeNumber
\*   singles the part of remainingOrders Step 4 has not visited yet
\*   selection the arguments and the result of the last selectOrdersForRake
\*   rejected the orders of the candidate rakes createRakePlansForGroup broke
\*           out on
\*   iterations the iterations the while loop of the group entered last has
\*           begun
NoSelection ==
  [orders |-> <<>>, wagonCapacity |-> 0, selected |-> <<>>, totalTonnage |-> 0]

NewInstance ==
  [ pc |-> "new", error |-> NoError, mem |-> Null,
    sortedOrders |-> <<>>, orderGroups |-> <<>>, gi |-> 0, inGroup |-> FALSE,
    wagonType |-> Null, remainingOrders |-> <<>>, rakeNumber |-> 0,
    rakePlans |-> <<>>, unfulfilledOrders |-> <<>>, singles |-> <<>>,
    selection |-> NoSelection, rejected |-> {}, iterations |-> 0,
    totalCost |-> 0, totalUtilized |-> 0, totalCapacity |-> 0 ]

EmptyArrays ==
  [orders |-> <<>>, inventory |-> <<>>, wagons |-> <<>>, loadingPoints |-> <<>>]

\* a step result: the instance's locals s and its private arrays a
Pair(s, a) == [s |-> s, a |-> a]

\* constructor, after the arrays were cloned to address mem with content a
constructed(s, a, mem) ==
  LET err == validateInputs(a)
  IN Pair([s EXCEPT !.mem = mem, !.error = err,
                    !.pc = IF err = NoError THEN "ready" ELSE "failed"], a)

\* optimize(), Steps 1 and 2; Array.prototype.sort sorts the copy
\* [...this.orders] it is given and returns it, this.orders keeps its order
optimizeBegin(s, a, t) ==
  LET sorted == prioritizeOrders(a.orders, t)
  IN Pair([s EXCEPT !.pc = "groups", !.sortedOrders = sorted,
                    !.orderGroups = groupOrders(sorted), !.gi = 1],
          a)

\* a rejection that drops the first remaining order and goes on with the rest
LeaveGroupOrSkip(s) ==
  IF Len(s.remainingOrders) > 1
  THEN [s EXCEPT !.remainingOrders = Tail(@)]
  ELSE [s EXCEPT !.gi = @ + 1, !.inGroup = FALSE, !.wagonType = Null,
                 !.remainingOrders = <<>>, !.rakeNumber = 0]
\* return from createRakePlansForGroup: on to the next group
LeaveGroup(s) ==
  [s EXCEPT !.gi = @ + 1, !.inGroup = FALSE, !.wagonType = Null,
            !.remainingOrders = <<>>, !.rakeNumber = 0]

\* createRakePlansForGroup up to the while loop
groupEnter(s, a) ==
  LET group == s.orderGroups[s.gi]
      wagonType == selectOptimalWagonType(a.wagons, group[1].product_name)
  IN IF wagonType = Null THEN Pair(LeaveGroup([s EXCEPT !.iterations = 0]), a)
     ELSE Pair([s EXCEPT !.inGroup = TRUE, !.wagonType = wagonType,
                         !.remainingOrders = group, !.rakeNumber = 1,
                         !.iterations = 0], a)

\* a filter that keeps every order
RemoveSelectedNone(remaining, selected) == remaining
\* remainingOrders.filter(o => !selectedOrders.find(so => so.id === o.id))
RemoveSelected(remaining, selected) ==
  SelectSeq(remaining, LAMBDA o : \A j \in 1..Len(selected) : selected[j].id # o.id)

\* one iteration of the while loop of createRakePlansForGroup
packRake(s0, a, t) ==
  LET s == [s0 EXCEPT !.iterations = @ + 1, !.selection =
              [ orders |-> s0.remainingOrders,
                wagonCapacity |-> getWagonCapacity(s0.wagonType),
                selected |-> selectOrdersForRake(s0.remainingOrders,
                               getWagonCapacity(s0.wagonType)).selected,
                totalTonnage |-> selectOrdersForRake(s0.remainingOrders,
                                   getWagonCapacity(s0.wagonType)).totalTonnage ]]
      productName == s.orderGroups[s.gi][1].product_name
      destination == s.orderGroups[s.gi][1].destination
      wagonCapacity == getWagonCapacity(s.wagonType)
      sel == selectOrdersForRake(s.remainingOrders, wagonCapacity)
      totalTonnage == sel.totalTonnage
      stockyard == findBestStockyard(a.inventory, productName, totalTonnage)
      loadingPoint == findBestLoadingPoint(a.loadingPoints, productName, stockyard)
      wagonCount == RakeWagonCount(totalTonnage, wagonCapacity)
      params == [ rakeNumber |-> GroupRakeNumber(s.rakeNumber),
                  orders |-> sel.selectedOrders, totalTonnage |-> totalTonnage,
                  wagonType |-> s.wagonType, wagonCount |-> wagonCount,
                  utilNum |-> totalTonnage, utilDen |-> wagonCount * wagonCapacity,
                  stockyard |-> stockyard, destination |-> destination,
                  loadingPoint |-> loadingPoint ]
      left == RemoveSelected(s.remainingOrders, sel.selectedOrders)
      accepted == [s EXCEPT !.rakeNumber = @ + 1,
                            !.rakePlans = Append(@, buildRakePlan(params, t)),
                            !.remainingOrders = left]
      pools == [a EXCEPT
                  !.inventory = consumeInventory(@, stockyard, productName, totalTonnage),
                  !.wagons = consumeWagons(@, s.wagonType, wagonCount)]
      broke == [s EXCEPT !.rejected =
                  @ \cup {sel.selectedOrders[j] : j \in 1..Len(sel.selectedOrders)}]
  IN IF Len(sel.selectedOrders) = 0 THEN Pair(LeaveGroup(s), a)
     ELSE IF stockyard = Null \/ loadingPoint = Null THEN Pair(LeaveGroup(broke), a)
     ELSE IF wagonCount < minWagons THEN Pair(LeaveGroup(broke), a)
     ELSE IF ~checkWagonAvailability(a.wagons, s.wagonType, wagonCount)
          THEN Pair(LeaveGroup(broke), a)
     ELSE IF MeetsMinUtilization(totalTonnage, wagonCount, wagonCapacity)
          THEN IF BuildThrows(params) THEN Pair([s EXCEPT !.pc = "threw"], a)
               ELSE IF Len(left) > 0 THEN Pair(accepted, pools)
               ELSE Pair(LeaveGroup(accepted), pools)
     ELSE Pair(LeaveGroup(broke), a)

\* optimize(), Step 4 up to its for loop
AssignedOrderIds(rakePlans) ==
  UNION { {rakePlans[k].orders[j].id : j \in 1..Len(rakePlans[k].orders)} :
          k \in 1..Len(rakePlans) }

singlesBeginUnfiltered(s, a) ==
  Pair([s EXCEPT !.pc = "singles", !.singles = s.sortedOrders], a)

singlesBeginFromGroups(s, a) ==
  LET assignedOrderIds == AssignedOrderIds(s.rakePlans)
      grouped == {s.orderGroups[g][k] :
                    <<g, k>> \in {<<g, k>> \in (1..Len(s.orderGroups)) \X (1..Len(s.sortedOrders)) :
                                   k <= Len(s.orderGroups[g])}}
  IN Pair([s EXCEPT !.pc = "singles",
                    !.singles = SelectSeq(s.sortedOrders,
                                  LAMBDA o : o \in grouped
                                             /\ o.id \notin assignedOrderIds)], a)

singlesBegin(s, a) ==
  LET assignedOrderIds == AssignedOrderIds(s.rakePlans)
  IN Pair([s EXCEPT !.pc = "singles",
                    !.singles = SelectSeq(s.sortedOrders,
                                  LAMBDA o : o.id \notin assignedOrderIds)], a)

\* one iteration of the for loop of Step 4: createSingleOrderPlan(order) and
\* the push of its plan or of the order
singleOrder(s, a, t) ==
  LET order == Head(s.singles)
      wagonType == selectOptimalWagonType(a.wagons, order.product_name)
      stockyard == findBestStockyard(a.inventory, order.product_name,
                                     order.tonnage_required)
      loadingPoint == findBestLoadingPoint(a.loadingPoints, order.product_name,
                                           stockyard)
      wagonCapacity == getWagonCapacity(wagonType)
      wagonCount == RakeWagonCount(order.tonnage_required, wagonCapacity)
      params == [ rakeNumber |-> ClockRakeNumber(t),
                  orders |-> <<order>>, totalTonnage |-> order.tonnage_required,
                  wagonType |-> wagonType, wagonCount |-> wagonCount,
                  utilNum |-> order.tonnage_required,
                  utilDen |-> wagonCount * wagonCapacity,
                  stockyard |-> stockyard, destination |-> order.destination,
                  loadingPoint |-> loadingPoint ]
      pools == [a EXCEPT
                  !.inventory = consumeInventory(@, stockyard, order.product_name,
                                                 order.tonnage_required),
                  !.wagons = consumeWagons(@, wagonType, wagonCount)]
      rejected == [s EXCEPT !.singles = Tail(@),
                            !.unfulfilledOrders = Append(@, order)]
  IN IF order.tonnage_required < MinRakeTonnage THEN Pair(rejected, a)
     ELSE IF wagonType = Null THEN Pair(rejected, a)
     ELSE IF stockyard = Null \/ loadingPoint = Null THEN Pair(rejected, a)
     ELSE IF wagonCount < minWagons
             \/ ~checkWagonAvailability(a.wagons, wagonType, wagonCount)
          THEN Pair(rejected, a)
     ELSE IF ~MeetsMinUtilization(order.tonnage_required, wagonCount, wagonCapacity)
          THEN Pair(rejected, a)
     ELSE IF BuildThrows(params) THEN Pair([s EXCEPT !.pc = "threw"], pools)
     ELSE Pair([s EXCEPT !.singles = Tail(@),
                         !.rakePlans = Append(@, buildRakePlan(params, t))], pools)

\* optimize(), Step 5 and the return; utilizationRate is totalUtilized /
\* totalCapacity, 0 when totalCapacity is 0
aggregate(s, a) ==
  LET n == Len(s.rakePlans)
  IN Pair([s EXCEPT
             !.pc = "done",
             !.totalCost = SumSeq([k \in 1..n |-> s.rakePlans[k].cost]),
             !.totalCapacity = SumSeq([k \in 1..n |->
                 s.rakePlans[k].wagonCount * getWagonCapacity(s.rakePlans[k].wagonType)]),
             !.totalUtilized = SumSeq([k \in 1..n |-> s.rakePlans[k].totalTonnage])],
          a)

\* ---------------------------------------------------------------- inputs
Date(ms) == [kind |-> "date", ms |-> ms]
NearDeadline == Date(0)
FarDeadline == Date(10 * DAY)
FourDayDeadline == Date(4 * DAY)
TwentyDayDeadline == Date(20 * DAY)

MkOrder(id, product, tonnage, priority, deadline, destination) ==
  [ id |-> id, product_name |-> product, tonnage_required |-> tonnage,
    priority_level |-> priority, deadline_date |-> deadline,
    destination |-> destination ]

\* the orders a snapshot is drawn from (id 0 is replaced by the position)
OrderShapes ==
  { MkOrder(0, "Iron Ore", 30000, "critical", FarDeadline, "Mumbai"),
    MkOrder(0, "Iron Ore", 20000, "high", FarDeadline, "Mumbai"),
    MkOrder(0, "Iron Ore", 12000, "low", NearDeadline, "Mumbai"),
    MkOrder(0, "Iron Ore", 50000, "medium", NearDeadline, "Kolkata"),
    MkOrder(0, "Bauxite", 30000, "medium", FarDeadline, "Delhi") }

MkInv(stockyard, product, tonnage) ==
  [stockyard_name |-> stockyard, product_name |-> product, tonnage_available |-> tonnage]
MkWagon(type, available, total) ==
  [wagon_type |-> type, available_count |-> available, total_count |-> total]
MkLP(name, capacity, products, status) ==
  [ point_name |-> name, capacity_tph |-> capacity, compatible_products |-> products,
    operational_status |-> status ]

InventoryChoices ==
  { <<>>,
    << MkInv("Bhilai", "Iron Ore", 32000) >>,
    << MkInv("Bhilai", "Iron Ore", 1000), MkInv("Bhilai", "Iron Ore", 60000) >> }

WagonChoices ==
  { << MkWagon("BOXN", 59, 60) >>,
    << MkWagon("BOXN", 0, 0), MkWagon("BOXN", 120, 120) >>,
    << MkWagon("BOXN", 49, 50), MkWagon("BCN", 120, 120) >> }

LoadingPointChoices ==
  { <<>>,
    << MkLP("LP1", 500, {"Iron Ore"}, "inactive"),
       MkLP("LP2", 300, {"Iron Ore"}, "active"),
       MkLP("LP3", 400, {"Iron Ore", "Coal"}, "active") >> }

\* order lists of 1..MaxOrders shapes; ids are the positions, or all 1
OrderLists ==
  { [k \in 1..n |-> [shapes[k] EXCEPT !.id = IF dup THEN 1 ELSE k]] :
      <<n, shapes, dup>> \in
        UNION { {<<m, f, d>> : f \in [1..m -> OrderShapes], d \in BOOLEAN} :
                m \in 1..MaxOrders } }

ValidSnapshots ==
  { [orders |-> o, inventory |-> i, wagons |-> w, loadingPoints |-> l] :
      o \in OrderLists, i \in InventoryChoices, w \in WagonChoices,
      l \in LoadingPointChoices }

\* one valid snapshot and the ways to break one rule of validateInputs in it
BaseSnapshot ==
  [ orders |-> << MkOrder(1, "Iron Ore", 30000, "critical", FarDeadline, "Mumbai"),
                  MkOrder(2, "Iron Ore", 12000, "low", NearDeadline, "Mumbai") >>,
    inventory |-> << MkInv("Bhilai", "Iron Ore", 32000),
                     MkInv("Rourkela", "Iron Ore", 0) >>,
    wagons |-> << MkWagon("BOXN", 49, 50), MkWagon("BCN", 120, 120) >>,
    loadingPoints |-> << MkLP("LP1", 500, {"Iron Ore"}, "inactive"),
                         MkLP("LP2", 300, {"Iron Ore"}, "active") >> ]

RecordDefects ==
  { "tonnage_zero", "tonnage_over", "deadline_missing", "deadline_invalid",
    "priority_unknown", "destination_unknown", "inventory_negative",
    "stockyard_unknown", "available_negative", "available_over_total",
    "wagon_type_unknown", "capacity_zero", "status_unknown" }

Defects ==
  {[kind |-> k, at |-> j] : k \in RecordDefects, j \in 1..2}
  \cup {[kind |-> k, at |-> 0] : k \in {"orders_empty", "wagons_empty", "none"}}

ApplyDefect(a, d) ==
  LET j == d.at
      k == d.kind
  IN IF k = "orders_empty" THEN [a EXCEPT !.orders = <<>>]
     ELSE IF k = "wagons_empty" THEN [a EXCEPT !.wagons = <<>>]
     ELSE IF k = "none" THEN a
     ELSE IF k \in {"tonnage_zero", "tonnage_over", "deadline_missing",
                    "deadline_invalid", "priority_unknown", "destination_unknown"}
       THEN IF j > Len(a.orders) THEN a
            ELSE [a EXCEPT !.orders[j] =
                   IF k = "tonnage_zero" THEN [@ EXCEPT !.tonnage_required = 0]
                   ELSE IF k = "tonnage_over"
                     THEN [@ EXCEPT !.tonnage_required = MaxOrderTonnage + 1]
                   ELSE IF k = "deadline_missing"
                     THEN [@ EXCEPT !.deadline_date = [kind |-> "missing", ms |-> 0]]
                   ELSE IF k = "deadline_invalid"
                     THEN [@ EXCEPT !.deadline_date = [kind |-> "invalid", ms |-> 0]]
                   ELSE IF k = "priority_unknown"
                     THEN [@ EXCEPT !.priority_level = "urgent"]
                   ELSE [@ EXCEPT !.destination = "Paris"]]
     ELSE IF k \in {"inventory_negative", "stockyard_unknown"}
       THEN [a EXCEPT !.inventory[j] =
              IF k = "inventory_negative" THEN [@ EXCEPT !.tonnage_available = -1]
              ELSE [@ EXCEPT !.stockyard_name = "Paris"]]
     ELSE IF k \in {"available_negative", "available_over_total", "wagon_type_unknown"}
       THEN IF j > Len(a.wagons) THEN a
            ELSE [a EXCEPT !.wagons[j] =
                   IF k = "available_negative" THEN [@ EXCEPT !.available_count = -1]
                   ELSE IF k = "available_over_total"
                     THEN [@ EXCEPT !.total_count = @ - 100]
                   ELSE [@ EXCEPT !.wagon_type = "BTPN"]]
     ELSE [a EXCEPT !.loadingPoints[j] =
            IF k = "capacity_zero" THEN [@ EXCEPT !.capacity_tph = 0]
            ELSE [@ EXCEPT !.operational_status = "closed"]]

DefectSnapshots ==
  { ApplyDefect(ApplyDefect(BaseSnapshot, d1), d2) : d1 \in Defects, d2 \in Defects }

\* the scenarios: orders around the rake sizes, stock in one row or split over
\* two stockyards, exactly minWagons wagons or two fleets
ScenarioShapes ==
  { MkOrder(0, "Iron Ore", 25000, "critical", FarDeadline, "Mumbai"),
    MkOrder(0, "Iron Ore", 17000, "high", FarDeadline, "Mumbai"),
    MkOrder(0, "Coal", 15000, "medium", FarDeadline, "Kolkata"),
    MkOrder(0, "Iron Ore", 34000, "high", NearDeadline, "Kolkata"),
    MkOrder(0, "Iron Ore", 29000, "critical", TwentyDayDeadline, "Mumbai"),
    MkOrder(0, "Iron Ore", 31000, "medium", FourDayDeadline, "Mumbai") }

ScenarioOrderLists ==
  { [k \in 1..n |-> [shapes[k] EXCEPT !.id = IF dup THEN 1 ELSE k]] :
      <<n, shapes, dup>> \in
        UNION { {<<m, f, d>> : f \in [1..m -> ScenarioShapes], d \in BOOLEAN} :
                m \in 1..MaxOrders } }

\* groups of three and of four orders
LongOrderLists ==
  { << MkOrder(1, "Iron Ore", 20000, "critical", FarDeadline, "Mumbai"),
       MkOrder(2, "Iron Ore", 17000, "high", FarDeadline, "Mumbai"),
       MkOrder(3, "Iron Ore", 12000, "low", NearDeadline, "Mumbai") >>,
    << MkOrder(1, "Iron Ore", 12000, "low", NearDeadline, "Mumbai"),
       MkOrder(2, "Iron Ore", 20000, "high", FarDeadline, "Mumbai"),
       MkOrder(3, "Iron Ore", 20000, "high", FarDeadline, "Mumbai") >>,
    << MkOrder(1, "Iron Ore", 8000, "low", NearDeadline, "Mumbai"),
       MkOrder(2, "Iron Ore", 8000, "low", NearDeadline, "Mumbai"),
       MkOrder(3, "Iron Ore", 8000, "low", NearDeadline, "Mumbai"),
       MkOrder(4, "Iron Ore", 8000, "low", NearDeadline, "Mumbai") >> }

ScenarioInventories ==
  { << MkInv("Bhilai", "Iron Ore", 30000) >>,
    << MkInv("Bhilai", "Iron Ore", 50000), MkInv("Rourkela", "Coal", 30000) >>,
    << MkInv("Bhilai", "Iron Ore", 20000), MkInv("Rourkela", "Iron Ore", 20000) >> }

ScenarioWagons ==
  { << MkWagon("BOXN", 50, 50) >>,
    << MkWagon("BOXN", 59, 60), MkWagon("BCN", 59, 60) >> }

ScenarioLoadingPoints ==
  { << MkLP("LP1", 300, {"Iron Ore", "Coal"}, "active") >> }

ScenarioSnapshots ==
  { [orders |-> o, inventory |-> i, wagons |-> w, loadingPoints |-> l] :
      o \in ScenarioOrderLists \cup LongOrderLists, i \in ScenarioInventories,
      w \in ScenarioWagons, l \in ScenarioLoadingPoints }

\* two critical orders for two destinations and a low-priority order that
\* shares the destination of the first; stock for the two critical orders
PrioritySnapshots ==
  { [ orders |-> << MkOrder(1, "Iron Ore", 29000, "critical", FourDayDeadline, "Mumbai"),
                    MkOrder(2, "Iron Ore", 30000, "critical", TwentyDayDeadline, "Kolkata"),
                    MkOrder(3, "Iron Ore", 5000, "low", NearDeadline, "Mumbai") >>,
      inventory |-> << MkInv("Bhilai", "Iron Ore", 60000) >>,
      wagons |-> w, loadingPoints |-> l ] :
      w \in ScenarioWagons, l \in ScenarioLoadingPoints }

\* one group that needs two rakes, with stock for both and two fleets of
\* which the first carries only one rake
TwoRakeSnapshots ==
  { [ orders |-> << MkOrder(1, "Iron Ore", 30000, "critical", FarDeadline, "Mumbai"),
                    MkOrder(2, "Iron Ore", 20000, "high", FarDeadline, "Mumbai"),
                    MkOrder(3, "Iron Ore", 12000, "low", NearDeadline, "Mumbai") >>,
      inventory |-> << MkInv("Bhilai", "Iron Ore", 62000) >>,
      wagons |-> w, loadingPoints |-> l ] :
      w \in ScenarioWagons, l \in ScenarioLoadingPoints }

\* a small urgent order and a rake-sized one for the same destination, with
\* stock for the large one but not for both, in the second of two stockyards
RejectedRakeSnapshots ==
  { [ orders |-> << MkOrder(1, "Iron Ore", 5000, "critical", NearDeadline, "Mumbai"),
                    MkOrder(2, "Iron Ore", 29000, "low", FarDeadline, "Mumbai") >>,
      inventory |-> << MkInv("Rourkela", "Iron Ore", 1000),
                       MkInv("Bhilai", "Iron Ore", 30000) >>,
      wagons |-> w, loadingPoints |-> l ] :
      w \in ScenarioWagons, l \in ScenarioLoadingPoints }

\* two rake-sized orders for two destinations, with stock for both
TwoGroupSnapshots ==
  { [ orders |-> << MkOrder(1, "Iron Ore", 30000, "critical", FarDeadline, "Mumbai"),
                    MkOrder(2, "Iron Ore", 30000, "high", FarDeadline, "Kolkata") >>,
      inventory |-> << MkInv("Bhilai", "Iron Ore", 62000) >>,
      wagons |-> w, loadingPoints |-> l ] :
      w \in ScenarioWagons, l \in ScenarioLoadingPoints }

\* one product for two destinations: two orders that fill a rake for Mumbai
\* and, between them in priority, one for Kolkata that would fit with the first
MixedDestinationSnapshots ==
  { [ orders |-> << MkOrder(1, "Iron Ore", 20000, "critical", FarDeadline, "Mumbai"),
                    MkOrder(2, "Iron Ore", 12000, "high", FarDeadline, "Kolkata"),
                    MkOrder(3, "Iron Ore", 12000, "low", FarDeadline, "Mumbai") >>,
      inventory |-> << MkInv("Bhilai", "Iron Ore", 50000) >>,
      wagons |-> w, loadingPoints |-> l ] :
      w \in ScenarioWagons, l \in ScenarioLoadingPoints }

\* one order of the largest tonnage validateInputs admits, with stock for it
HeaviestOrderSnapshots ==
  { [ orders |-> << MkOrder(1, "Iron Ore", MaxOrderTonnage, "medium", FarDeadline,
                            "Mumbai") >>,
      inventory |-> << MkInv("Bhilai", "Iron Ore", MaxOrderTonnage) >>,
      wagons |-> w, loadingPoints |-> l ] :
      w \in ScenarioWagons, l \in ScenarioLoadingPoints }

InputSnapshots ==
  ValidSnapshots \cup DefectSnapshots \cup ScenarioSnapshots \cup PrioritySnapshots
  \cup TwoRakeSnapshots \cup RejectedRakeSnapshots \cup TwoGroupSnapshots
  \cup MixedDestinationSnapshots \cup HeaviestOrderSnapshots

\* what the recommender is given: orders of three products, one of them
\* without wagon types, null elements, an empty product name; stock in no, one
\* or several rows, one of them negative
RecommenderShapes ==
  { MkOrder(0, "Iron Ore", 30000, "critical", FarDeadline, "Mumbai"),
    MkOrder(0, "Iron Ore", 12000, "low", NearDeadline, "Mumbai"),
    MkOrder(0, "Coal", 15050, "medium", FarDeadline, "Kolkata"),
    MkOrder(0, "Bauxite", 30000, "low", TwentyDayDeadline, "Delhi"),
    MkOrder(0, "", 20000, "high", FarDeadline, "Mumbai"),
    NullOrder }

RecommenderOrderLists ==
  { [k \in 1..n |-> IF shapes[k] = NullOrder THEN NullOrder
                     ELSE [shapes[k] EXCEPT !.id = k]] :
      <<n, shapes>> \in
        UNION { {<<m, f>> : f \in [1..m -> RecommenderShapes]} : m \in 1..MaxOrders } }

RecommenderInventories ==
  { <<>>,
    << MkInv("Bhilai", "Iron Ore", 32000) >>,
    << MkInv("Bhilai", "Iron Ore", 1000), MkInv("Rourkela", "Iron Ore", 60000),
       MkInv("Rourkela", "Coal", 10020) >>,
    << MkInv("Bhilai", "Iron Ore", -1) >> }

RecommenderSnapshots ==
  { [orders |-> o, inventory |-> i, wagons |-> w, loadingPoints |-> <<>>] :
      o \in RecommenderOrderLists, i \in RecommenderInventories, w \in ScenarioWagons }

\* --------------------------------------------------------- state machine
Instances == {"A", "B"}
Addresses == {"caller"} \cup Instances

VARIABLES
  snapshot,  \* the arrays the caller built, as they were at the start
  heap,      \* address -> the four arrays stored there
  inst,      \* instance -> its locals
  solo,      \* instance -> the state (locals and arrays) of the same calls,
             \* at the same clock readings, run on a copy nobody else touches
  recommender, \* the ProductionRecommender built from the caller's arrays
  page,      \* the generatePlans mutation of the Plans page and its tables
  now        \* Date.now()

vars == <<snapshot, heap, inst, solo, recommender, page, now>>

\* JSON.parse(JSON.stringify(x)) allocates new arrays: the address of the
\* copy the constructor of instance self makes of the arrays at address src
AliasClone(self, src) == src
DeepClone(self, src) == self

StartWith(inputs) ==
  /\ snapshot \in inputs
  /\ heap = [x \in Addresses |-> IF x = "caller" THEN snapshot ELSE EmptyArrays]
  /\ inst = [i \in Instances |-> NewInstance]
  /\ solo = [i \in Instances |-> Pair(NewInstance, EmptyArrays)]
  /\ recommender = NewRecommender
  /\ page = NewPage
  /\ now = 0

Init == StartWith(InputSnapshots)

\* instance i takes the step r (computed from its locals and the arrays its
\* fields point to); the same step is taken on the private copy of solo
Commit(i, r, g) ==
  /\ inst' = [inst EXCEPT ![i] = r.s]
  /\ heap' = [heap EXCEPT ![inst[i].mem] = r.a]
  /\ solo' = [solo EXCEPT ![i] = g]
  /\ UNCHANGED <<snapshot, recommender, page, now>>

Mine(i) == heap[inst[i].mem]

\* new RakeOptimizer(orders, inventory, wagons, loadingPoints)
Construct(i) ==
  /\ inst[i].pc = "new"
  /\ LET mem == DeepClone(i, "caller")
         copied == [heap EXCEPT ![mem] = heap["caller"]]
         r == constructed(inst[i], copied[mem], mem)
     IN /\ heap' = copied
        /\ inst' = [inst EXCEPT ![i] = r.s]
        /\ solo' = [solo EXCEPT ![i] = constructed(solo[i].s, heap["caller"], i)]
  /\ UNCHANGED <<snapshot, recommender, page, now>>

OptimizeBegin(i) ==
  /\ inst[i].pc = "ready"
  /\ Commit(i, optimizeBegin(inst[i], Mine(i), now),
               optimizeBegin(solo[i].s, solo[i].a, now))

GroupEnter(i) ==
  /\ inst[i].pc = "groups"
  /\ ~inst[i].inGroup
  /\ inst[i].gi <= Len(inst[i].orderGroups)
  /\ Commit(i, groupEnter(inst[i], Mine(i)), groupEnter(solo[i].s, solo[i].a))

PackRake(i) ==
  /\ inst[i].pc = "groups"
  /\ inst[i].inGroup
  /\ Commit(i, packRake(inst[i], Mine(i), now), packRake(solo[i].s, solo[i].a, now))

SinglesBegin(i) ==
  /\ inst[i].pc = "groups"
  /\ ~inst[i].inGroup
  /\ inst[i].gi > Len(inst[i].orderGroups)
  /\ Commit(i, singlesBegin(inst[i], Mine(i)), singlesBegin(solo[i].s, solo[i].a))

SingleOrder(i) ==
  /\ inst[i].pc = "singles"
  /\ inst[i].singles # <<>>
  /\ Commit(i, singleOrder(inst[i], Mine(i), now),
               singleOrder(solo[i].s, solo[i].a, now))

Aggregate(i) ==
  /\ inst[i].pc = "singles"
  /\ inst[i].singles = <<>>
  /\ Commit(i, aggregate(inst[i], Mine(i)), aggregate(solo[i].s, solo[i].a))

\* the clock advances by a millisecond
Tick ==
  /\ now < MaxNow
  /\ now' = now + 1
  /\ UNCHANGED <<snapshot, heap, inst, solo, recommender, page>>

Next ==
  \/ Tick
  \/ Construct("A")
  \/ OptimizeBegin("A")
  \/ GroupEnter("A")
  \/ PackRake("A")
  \/ SinglesBegin("A")
  \/ SingleOrder("A")
  \/ Aggregate("A")

Spec == Init /\ [][Next]_vars

\* the constructor and optimize() are synchronous code: once called, they run
\* on
Run(i) ==
  \/ Construct(i)
  \/ OptimizeBegin(i)
  \/ GroupEnter(i)
  \/ PackRake(i)
  \/ SinglesBegin(i)
  \/ SingleOrder(i)
  \/ Aggregate(i)

\* the snapshots whose groups take several iterations or several rakes
RunSnapshots ==
  PrioritySnapshots \cup TwoRakeSnapshots \cup RejectedRakeSnapshots
  \cup TwoGroupSnapshots
  \cup { a \in ScenarioSnapshots : a.orders \in LongOrderLists }

InitRun == StartWith(RunSnapshots)

\* a step of Run(i) is possible exactly at these positions, and it always
\* moves the position or shortens a pending list
RunEnabled(i) == inst[i].pc \in {"new", "ready", "groups", "singles"}

\* weak fairness of Run("A"), WF_vars(Run("A")), written out with RunEnabled
\* in the place of ENABLED <<Run("A")>>_vars
SpecRun ==
  /\ InitRun
  /\ [][Next]_vars
  /\ ([]<>(~RunEnabled("A")) \/ []<><<Run("A")>>_vars)

\* two optimizers built from the same caller arrays, their steps interleaved
DistinctIds(orders) ==
  \A j, k \in 1..Len(orders) : j # k => orders[j].id # orders[k].id

PairSnapshots ==
  { a \in ValidSnapshots :
      /\ DistinctIds(a.orders)
      /\ \A k \in 1..Len(a.orders) : a.orders[k].product_name \in DOMAIN PRODUCTS
      /\ a.inventory # <<>>
      /\ a.wagons[1].available_count = 49
      /\ a.loadingPoints # <<>> }

InitPair == StartWith(PairSnapshots)

NextPair ==
  \/ Tick
  \/ \E i \in Instances :
       \/ Construct(i)
       \/ OptimizeBegin(i)
       \/ GroupEnter(i)
       \/ PackRake(i)
       \/ SinglesBegin(i)
       \/ SingleOrder(i)
       \/ Aggregate(i)

SpecPair == InitPair /\ [][NextPair]_vars

\* new ProductionRecommender(orders, inventory, wagons): validates, keeps a
\* filtered copy of orders and the inventory and wagons arrays themselves
RecommenderConstruct ==
  /\ recommender.pc = "new"
  /\ LET a == heap["caller"]
         err == validateInputData(a.orders, a.inventory, a.wagons)
     IN recommender' =
          IF err # NoError
          THEN [recommender EXCEPT !.pc = "failed", !.error = err]
          ELSE [recommender EXCEPT
                  !.pc = "ready", !.mem = "caller",
                  !.orders = SelectSeq(a.orders, LAMBDA o : o # NullOrder)]
  /\ UNCHANGED <<snapshot, heap, inst, solo, page, now>>

\* recommender.generateRecommendations(): nothing but its result is written
GenerateRecommendations ==
  /\ recommender.pc = "ready"
  /\ recommender' =
       [recommender EXCEPT
          !.pc = "done",
          !.recommendations =
             generateRecommendations(recommender.orders, heap[recommender.mem].inventory,
                                     heap[recommender.mem].wagons, now)]
  /\ UNCHANGED <<snapshot, heap, inst, solo, page, now>>

InitRecommender == StartWith(RecommenderSnapshots)

NextRecommender ==
  \/ Tick
  \/ RecommenderConstruct
  \/ GenerateRecommendations

SpecRecommender == InitRecommender /\ [][NextRecommender]_vars

\* what the Plans page loads: open orders under their primary keys, and
\* inventory, wagons and active loading points, none of the four empty
PageSnapshots ==
  { a \in ScenarioSnapshots \cup PrioritySnapshots \cup TwoRakeSnapshots
            \cup RejectedRakeSnapshots \cup TwoGroupSnapshots :
      /\ DistinctIds(a.orders)
      /\ a.inventory # <<>> /\ a.wagons # <<>> /\ a.loadingPoints # <<>>
      /\ \A k \in 1..Len(a.loadingPoints) :
           a.loadingPoints[k].operational_status = "active" }

\* the page's optimizer is instance "A".  Deduplicate and upsert the plans;
\* throw if optimize() returned none
UpsertPlans ==
  /\ page.pc = "idle"
  /\ inst["A"].pc = "done"
  /\ page' = IF Len(inst["A"].rakePlans) = 0 THEN [page EXCEPT !.pc = "failed"]
             ELSE [page EXCEPT
                     !.pc = "plans",
                     !.rake_plans =
                        upsert(@, [k \in 1..Len(uniquePlans(inst["A"].rakePlans)) |->
                                     planInsert(uniquePlans(inst["A"].rakePlans)[k])])]
  /\ UNCHANGED <<snapshot, heap, inst, solo, recommender, now>>

\* link the orders to the plans
InsertLinks ==
  /\ page.pc = "plans"
  /\ page' = [page EXCEPT
                !.pc = "links",
                !.rake_plan_orders = @ \o orderLinks(inst["A"].rakePlans, page.rake_plans)]
  /\ UNCHANGED <<snapshot, heap, inst, solo, recommender, now>>

\* update the order statuses and return
UpdateStatuses ==
  /\ page.pc = "links"
  /\ page' = [page EXCEPT !.pc = "done", !.planned = AssignedOrderIds(inst["A"].rakePlans)]
  /\ UNCHANGED <<snapshot, heap, inst, solo, recommender, now>>

InitPage == StartWith(PageSnapshots)

NextPage ==
  \/ Next
  \/ UpsertPlans
  \/ InsertLinks
  \/ UpdateStatuses

SpecPage == InitPage /\ [][NextPage]_vars

\* ------------------------------------------------------------ properties
Constructed(i) == inst[i].pc \in {"ready", "groups", "singles", "done", "threw"}
Done(i) == inst[i].pc = "done"
Plans(i) == inst[i].rakePlans
PlanSet(i) == {Plans(i)[k] : k \in 1..Len(Plans(i))}
PlanProduct(plan) == plan.orders[1].product_name

\* how many times the order o occurs in the orders lists of the plans
RECURSIVE CountIn(_, _)
CountIn(q, o) ==
  IF q = <<>> THEN 0 ELSE (IF Head(q) = o THEN 1 ELSE 0) + CountIn(Tail(q), o)

PlanOccurrences(i, o) ==
  SumSeq([k \in 1..Len(Plans(i)) |-> CountIn(Plans(i)[k].orders, o)])

\* C1: Partition.  When optimize() has returned on a snapshot whose order ids
\* are pairwise distinct, every input order occurs exactly once in the orders
\* lists of the returned plans and the unfulfilledOrders list taken together.
C1_Partition ==
  \A i \in Instances :
    (Done(i) /\ DistinctIds(snapshot.orders)) =>
      \A k \in 1..Len(snapshot.orders) :
        PlanOccurrences(i, snapshot.orders[k])
        + CountIn(inst[i].unfulfilledOrders, snapshot.orders[k]) = 1

C1_Witness ==
  /\ Done("A")
  /\ DistinctIds(snapshot.orders)
  /\ Len(snapshot.orders) >= 2
  /\ Len(Plans("A")) >= 1
  /\ Len(inst["A"].unfulfilledOrders) >= 1

\* tonnage of the plans of instance i drawn from (stockyard, product)
PlannedTonnage(i, stockyard, product) ==
  SumSeq([k \in 1..Len(Plans(i)) |->
    IF Plans(i)[k].originStockyard = stockyard /\ PlanProduct(Plans(i)[k]) = product
    THEN Plans(i)[k].totalTonnage ELSE 0])

\* tonnage_available the pair has in the input snapshot, all its rows together
InputTonnage(stockyard, product) ==
  SumSeq([k \in 1..Len(snapshot.inventory) |->
    IF snapshot.inventory[k].stockyard_name = stockyard
       /\ snapshot.inventory[k].product_name = product
    THEN snapshot.inventory[k].tonnage_available ELSE 0])

\* C2: Inventory conservation.  In every state of a run, the plans drawn from a
\* (stockyard, product) pair total at most the tonnage the pair had in the
\* input snapshot, and no private inventory row is negative.
C2_InventoryConservation ==
  \A i \in Instances :
    Constructed(i) =>
      /\ \A k \in 1..Len(Mine(i).inventory) :
           Mine(i).inventory[k].tonnage_available >= 0
      /\ \A k \in 1..Len(snapshot.inventory) :
           PlannedTonnage(i, snapshot.inventory[k].stockyard_name,
                             snapshot.inventory[k].product_name)
           <= InputTonnage(snapshot.inventory[k].stockyard_name,
                           snapshot.inventory[k].product_name)

PlannedWagons(i, wagonType) ==
  SumSeq([k \in 1..Len(Plans(i)) |->
    IF Plans(i)[k].wagonType = wagonType THEN Plans(i)[k].wagonCount ELSE 0])

InputWagons(wagonType) ==
  SumSeq([k \in 1..Len(snapshot.wagons) |->
    IF snapshot.wagons[k].wagon_type = wagonType
    THEN snapshot.wagons[k].available_count ELSE 0])

\* C3: Wagon conservation.  In every state of a run, the plans using a wagon
\* type total at most the available_count the type had in the input snapshot,
\* and no private wagon row is negative.
C3_WagonConservation ==
  \A i \in Instances :
    Constructed(i) =>
      /\ \A k \in 1..Len(Mine(i).wagons) : Mine(i).wagons[k].available_count >= 0
      /\ \A wt \in DOMAIN WAGON_TYPES : PlannedWagons(i, wt) <= InputWagons(wt)

\* a run that holds a group plan and a single-order plan
C3_Witness ==
  /\ Done("A")
  /\ \E p, q \in PlanSet("A") : ~p.rakeId.clock /\ q.rakeId.clock
  /\ \E k \in 1..Len(Mine("A").wagons) :
       Mine("A").wagons[k].available_count < snapshot.wagons[k].available_count

\* C4: Capacity covers load.  Every plan has
\* wagonCount x capacity(wagonType) >= totalTonnage.
C4_CapacityCoversLoad ==
  \A i \in Instances : \A p \in PlanSet(i) :
    p.wagonCount * getWagonCapacity(p.wagonType) >= p.totalTonnage

TotalTonnage(inventory) ==
  SumSeq([k \in 1..Len(inventory) |-> inventory[k].tonnage_available])
TotalWagons(wagons) ==
  SumSeq([k \in 1..Len(wagons) |-> wagons[k].available_count])

SectionRank == [orders |-> 1, inventory |-> 2, wagons |-> 3, loadingPoints |-> 4]
RuleRank ==
  [ empty |-> 0, tonnage_positive |-> 1, tonnage_limit |-> 2, deadline_missing |-> 3,
    deadline_invalid |-> 4, priority |-> 5, destination |-> 6,
    tonnage_negative |-> 1, stockyard |-> 2,
    available_negative |-> 1, total_lt_available |-> 2, wagon_type |-> 3,
    capacity |-> 1, status |-> 2 ]

Where(q, Bad(_)) == {k \in 1..Len(q) : Bad(q[k])}

ListedViolations(a) ==
  (IF Len(a.orders) = 0 THEN {Err("orders", -1, "empty")} ELSE {})
  \cup {Err("orders", k - 1, "tonnage_positive") :
          k \in Where(a.orders, LAMBDA o : o.tonnage_required <= 0)}
  \cup {Err("orders", k - 1, "tonnage_limit") :
          k \in Where(a.orders, LAMBDA o : o.tonnage_required > MaxOrderTonnage)}
  \cup {Err("orders", k - 1, "deadline_missing") :
          k \in Where(a.orders, LAMBDA o : o.deadline_date.kind = "missing")}
  \cup {Err("orders", k - 1, "deadline_invalid") :
          k \in Where(a.orders, LAMBDA o : o.deadline_date.kind = "invalid")}
  \cup {Err("orders", k - 1, "priority") :
          k \in Where(a.orders, LAMBDA o : o.priority_level \notin PriorityLevels)}
  \cup {Err("orders", k - 1, "destination") :
          k \in Where(a.orders, LAMBDA o : o.destination \notin VALID_CITIES)}
  \cup {Err("inventory", k - 1, "tonnage_negative") :
          k \in Where(a.inventory, LAMBDA r : r.tonnage_available < 0)}
  \cup {Err("inventory", k - 1, "stockyard") :
          k \in Where(a.inventory, LAMBDA r : r.stockyard_name \notin VALID_CITIES)}
  \cup {Err("wagons", k - 1, "available_negative") :
          k \in Where(a.wagons, LAMBDA w : w.available_count < 0)}
  \cup {Err("wagons", k - 1, "total_lt_available") :
          k \in Where(a.wagons, LAMBDA w : w.available_count > w.total_count)}
  \cup {Err("wagons", k - 1, "wagon_type") :
          k \in Where(a.wagons, LAMBDA w : w.wagon_type \notin DOMAIN WAGON_TYPES)}
  \cup {Err("loadingPoints", k - 1, "capacity") :
          k \in Where(a.loadingPoints, LAMBDA l : l.capacity_tph <= 0)}
  \cup {Err("loadingPoints", k - 1, "status") :
          k \in Where(a.loadingPoints,
                      LAMBDA l : l.operational_status \notin OperationalStatuses)}

\* the listed rules and the rule the constructor also enforces: wagons not empty
AllViolations(a) ==
  ListedViolations(a)
  \cup (IF Len(a.wagons) = 0 THEN {Err("wagons", -1, "empty")} ELSE {})

Before(v, w) ==
  \/ SectionRank[v.section] < SectionRank[w.section]
  \/ /\ v.section = w.section
     /\ \/ v.idx < w.idx
        \/ v.idx = w.idx /\ RuleRank[v.rule] <= RuleRank[w.rule]

Earliest(V) == CHOOSE v \in V : \A w \in V : Before(v, w)

Returned(i, o) == CountIn(inst[i].unfulfilledOrders, o) >= 1

\* C6 as stated: on a snapshot that passes the listed input checks neither the
\* constructor nor optimize() throws, and every order that is in no plan is
\* returned in unfulfilledOrders.
C6_Original ==
  \A i \in Instances :
    (inst[i].pc # "new" /\ ListedViolations(snapshot) = {}) =>
      /\ inst[i].pc \notin {"failed", "threw"}
      /\ Done(i) =>
           \A k \in 1..Len(snapshot.orders) :
             PlanOccurrences(i, snapshot.orders[k]) = 0
               => Returned(i, snapshot.orders[k])

\* C6, amended: on a snapshot that passes every check of the constructor (the
\* listed ones and wagons not empty) neither the constructor nor optimize()
\* throws, and, when the order ids are pairwise distinct, every order that is
\* in no plan is returned in unfulfilledOrders.
C6_InfeasibilityIsData ==
  \A i \in Instances :
    (inst[i].pc # "new" /\ AllViolations(snapshot) = {}) =>
      /\ inst[i].pc \notin {"failed", "threw"}
      /\ (Done(i) /\ DistinctIds(snapshot.orders)) =>
           \A k \in 1..Len(snapshot.orders) :
             PlanOccurrences(i, snapshot.orders[k]) = 0
               => Returned(i, snapshot.orders[k])

\* no inventory at all: optimize() returns, with every order unfulfilled
C6_Witness ==
  /\ Done("A")
  /\ snapshot.inventory = <<>>
  /\ \E k \in 1..Len(snapshot.orders) :
       snapshot.orders[k].tonnage_required >= minWagons * getWagonCapacity("BOXN")
  /\ Len(inst["A"].unfulfilledOrders) = Len(snapshot.orders)

\* C7: Caller snapshot is never mutated.  The caller's four arrays hold, in
\* every state, the records they held at the start, in the same order.
C7_CallerUnchanged == heap["caller"] = snapshot

\* optimize() has returned and has decremented both private pools
C7_Witness ==
  /\ Done("A")
  /\ Mine("A").inventory # snapshot.inventory
  /\ Mine("A").wagons # snapshot.wagons

\* what optimize() of instance i has produced so far, and its private pools
Outcome(s, a) ==
  [ pc |-> s.pc, rakePlans |-> s.rakePlans, unfulfilledOrders |-> s.unfulfilledOrders,
    totalCost |-> s.totalCost, totalUtilized |-> s.totalUtilized,
    totalCapacity |-> s.totalCapacity, inventory |-> a.inventory, wagons |-> a.wagons ]

\* C8: Instance isolation.  With two instances built from the same caller
\* arrays and their steps interleaved in any order, each instance has, in
\* every state and so at its return, the plans, unfulfilled orders and pools
\* that the same calls produce when nothing else runs.
C8_Isolation ==
  \A i \in Instances :
    Constructed(i) => Outcome(inst[i], Mine(i)) = Outcome(solo[i].s, solo[i].a)

\* both instances are inside optimize() and both have consumed from their pools
C8_Witness ==
  /\ \A i \in Instances :
       /\ inst[i].pc \in {"groups", "singles"}
       /\ Len(Plans(i)) >= 1
       /\ Mine(i).inventory # snapshot.inventory

\* the part of a plan the determinism claim names
Claimed(plan) ==
  [ rakeId |-> plan.rakeId, orders |-> plan.orders, wagonType |-> plan.wagonType,
    wagonCount |-> plan.wagonCount, originStockyard |-> plan.originStockyard,
    loadingPoint |-> plan.loadingPoint, cost |-> plan.cost,
    costBreakdown |-> plan.costBreakdown ]

\* C9: Determinism.  Two runs on the same snapshot return the same plans (rakeId,
\* wagons, origin, loading point, orders), the same unfulfilledOrders and the
\* same cost numbers.
C9_Determinism ==
  (Done("A") /\ Done("B")) =>
    /\ [k \in 1..Len(Plans("A")) |-> Claimed(Plans("A")[k])]
         = [k \in 1..Len(Plans("B")) |-> Claimed(Plans("B")[k])]
    /\ inst["A"].unfulfilledOrders = inst["B"].unfulfilledOrders
    /\ inst["A"].totalCost = inst["B"].totalCost

\* C10 as stated: on a snapshot that violates a listed input rule the
\* constructor throws the error of the first violation in the check order, and
\* nothing of optimize() has run.
C10_Original ==
  \A i \in Instances :
    (inst[i].pc # "new" /\ ListedViolations(snapshot) # {}) =>
      /\ inst[i].pc = "failed"
      /\ inst[i].error = Earliest(ListedViolations(snapshot))
      /\ inst[i].sortedOrders = <<>> /\ inst[i].rakePlans = <<>>

\* C10, amended: the rules are the listed ones and, between the inventory
\* rules and the per-wagon rules, wagons not empty.
C10_FailFast ==
  \A i \in Instances :
    (inst[i].pc # "new" /\ AllViolations(snapshot) # {}) =>
      /\ inst[i].pc = "failed"
      /\ inst[i].error = Earliest(AllViolations(snapshot))
      /\ inst[i].sortedOrders = <<>> /\ inst[i].rakePlans = <<>>

\* the constructor has thrown on a snapshot that violates rules of two arrays
C10_Witness ==
  /\ inst["A"].pc = "failed"
  /\ \E v, w \in AllViolations(snapshot) : v.section # w.section

\* Scenario A: one 2500 T Iron Ore order, 3000 T of Iron Ore at one stockyard,
\* 50 available BOXN wagons, one compatible active loading point
ScenarioA ==
  [ orders |-> << MkOrder(1, "Iron Ore", 25000, "critical", FarDeadline, "Mumbai") >>,
    inventory |-> << MkInv("Bhilai", "Iron Ore", 30000) >>,
    wagons |-> << MkWagon("BOXN", 50, 50) >>,
    loadingPoints |-> << MkLP("LP1", 300, {"Iron Ore", "Coal"}, "active") >> ]

\* some row of the product holds the tonnage, and an active loading point is
\* compatible with the product
HasStock(a, product, tonnage) ==
  \E k \in 1..Len(a.inventory) :
    /\ a.inventory[k].product_name = product
    /\ a.inventory[k].tonnage_available >= tonnage
HasLoadingPoint(a, product) ==
  \E k \in 1..Len(a.loadingPoints) :
    /\ a.loadingPoints[k].operational_status = "active"
    /\ product \in a.loadingPoints[k].compatible_products

\* a snapshot of one order of at least 2000 T that stock, loading point and the
\* wagons of type wt allow, and that needs fewer than minWagons wagons of it
SmallFeasibleOrder(a, wt) ==
  /\ Len(a.orders) = 1
  /\ a.orders[1].product_name \in DOMAIN PRODUCTS
  /\ wt = selectOptimalWagonType(a.wagons, a.orders[1].product_name)
  /\ wt # Null
  /\ checkWagonAvailability(a.wagons, wt, minWagons)
  /\ a.orders[1].tonnage_required >= MinRakeTonnage
  /\ HasStock(a, a.orders[1].product_name, a.orders[1].tonnage_required)
  /\ HasLoadingPoint(a, a.orders[1].product_name)
  /\ CeilDiv(a.orders[1].tonnage_required, getWagonCapacity(wt)) < minWagons
  /\ MeetsMinUtilization(a.orders[1].tonnage_required, minWagons, getWagonCapacity(wt))

\* C11: Scenario A (minimum-wagon clamp).  On the snapshot of Scenario A
\* optimize() returns exactly one plan and no unfulfilled order; in general a
\* feasible order of at least 2000 T that needs fewer than minWagons wagons is
\* planned with wagonCount raised to minWagons.
C11_MinimumWagonClamp ==
  \A i \in Instances :
    Done(i) =>
      /\ snapshot = ScenarioA =>
           Len(Plans(i)) = 1 /\ inst[i].unfulfilledOrders = <<>>
      /\ \A wt \in DOMAIN WAGON_TYPES :
           SmallFeasibleOrder(snapshot, wt) =>
             /\ Len(Plans(i)) = 1
             /\ Plans(i)[1].wagonCount = minWagons
             /\ Plans(i)[1].wagonType = wt

\* a snapshot of two orders with the same product and destination
TwoOfOneGroup(a) ==
  /\ Len(a.orders) = 2
  /\ GroupKey(a.orders[1]) = GroupKey(a.orders[2])
  /\ a.orders[1].product_name \in DOMAIN PRODUCTS

PairTonnage(a) == a.orders[1].tonnage_required + a.orders[2].tonnage_required

\* both orders are in the one plan, none is unfulfilled
MergedInOnePlan(i) ==
  /\ Len(Plans(i)) = 1
  /\ Len(Plans(i)[1].orders) = 2
  /\ \A k \in 1..2 : CountIn(Plans(i)[1].orders, snapshot.orders[k]) >= 1
  /\ inst[i].unfulfilledOrders = <<>>

\* C12 as stated (Scenario D): two orders with the same product and destination
\* that total 4200 T, with a stock row, wagons of a compatible type and a
\* loading point that suffice, are merged into one plan holding both.
C12_Original ==
  \A i \in Instances :
    ( /\ Done(i)
      /\ TwoOfOneGroup(snapshot)
      /\ DistinctIds(snapshot.orders)
      /\ PairTonnage(snapshot) = 42000
      /\ HasStock(snapshot, snapshot.orders[1].product_name, PairTonnage(snapshot))
      /\ HasLoadingPoint(snapshot, snapshot.orders[1].product_name)
      /\ \E wt \in DOMAIN WAGON_TYPES :
           checkWagonAvailability(snapshot.wagons, wt, maxWagons) )
    => MergedInOnePlan(i)

\* the two orders fit one rake of the wagon type selected for their product:
\* the total needs between minWagons and maxWagons wagons, neither order alone
\* reaches the target 0.9 x idealWagons x capacity, and one stock row, the
\* wagons of the type and a loading point suffice
FitsOneRake(a) ==
  LET product == a.orders[1].product_name
      wt == selectOptimalWagonType(a.wagons, product)
      cap == getWagonCapacity(wt)
      total == PairTonnage(a)
  IN /\ TwoOfOneGroup(a)
     /\ wt # Null
     /\ CeilDiv(total, cap) >= minWagons
     /\ total <= maxWagons * cap
     /\ \A k \in 1..2 :
          TargetDen * a.orders[k].tonnage_required < TargetNum * idealWagons * cap
     /\ HasStock(a, product, total)
     /\ HasLoadingPoint(a, product)
     /\ checkWagonAvailability(a.wagons, wt, CeilDiv(total, cap))

\* C12, amended: two orders with the same product and destination whose total
\* fits one rake (and 4200 T fits none) are merged into one plan holding both;
\* they end neither as two single-order plans nor as unfulfilled orders.
C12_GroupingBeforeSingles ==
  \A i \in Instances :
    (Done(i) /\ FitsOneRake(snapshot)) => MergedInOnePlan(i)

C12_Witness ==
  /\ Done("A")
  /\ FitsOneRake(snapshot)
  /\ snapshot.orders[1] # snapshot.orders[2]
  /\ Len(Plans("A")) = 1
  /\ Len(Plans("A")[1].orders) = 2

\* total tonnage of the (product, destination) group of order o in the snapshot
SnapshotGroupTonnage(o) == GroupTonnage(OrdersOfKey(snapshot.orders, GroupKey(o)))

BelowEconomicSize(o) == SnapshotGroupTonnage(o) < MinRakeTonnage

\* C13 as stated: every order of a (product, destination) group that totals
\* less than 2000 T ends in unfulfilledOrders and in no plan.
C13_Original ==
  \A i \in Instances :
    Done(i) =>
      \A k \in 1..Len(snapshot.orders) :
        BelowEconomicSize(snapshot.orders[k]) =>
          /\ PlanOccurrences(i, snapshot.orders[k]) = 0
          /\ Returned(i, snapshot.orders[k])

\* C13, amended: every order of a group that totals less than 2000 T is in no
\* plan, and, when the order ids are pairwise distinct, ends in
\* unfulfilledOrders.
C13_BelowEconomicSize ==
  \A i \in Instances :
    Done(i) =>
      \A k \in 1..Len(snapshot.orders) :
        BelowEconomicSize(snapshot.orders[k]) =>
          /\ PlanOccurrences(i, snapshot.orders[k]) = 0
          /\ DistinctIds(snapshot.orders) => Returned(i, snapshot.orders[k])

\* a run that planned one order and returned a below-size order of a product
\* that stock, wagons and loading point would serve
C13_Witness ==
  /\ Done("A")
  /\ DistinctIds(snapshot.orders)
  /\ Len(Plans("A")) >= 1
  /\ \E k \in 1..Len(snapshot.orders) :
       /\ BelowEconomicSize(snapshot.orders[k])
       /\ Returned("A", snapshot.orders[k])
       /\ HasStock(snapshot, snapshot.orders[k].product_name,
                   snapshot.orders[k].tonnage_required)
       /\ HasLoadingPoint(snapshot, snapshot.orders[k].product_name)

\* no single inventory row of the order's product holds the order's tonnage
StockShort(o) == ~HasStock(snapshot, o.product_name, o.tonnage_required)

\* C14 as stated: an order whose tonnage no inventory row of its product holds
\* at the start ends in unfulfilledOrders.
C14_Original ==
  \A i \in Instances :
    Done(i) =>
      \A k \in 1..Len(snapshot.orders) :
        StockShort(snapshot.orders[k]) => Returned(i, snapshot.orders[k])

\* C14, amended: such an order is in no plan, and, when the order ids are
\* pairwise distinct, ends in unfulfilledOrders.
C14_InsufficientStock ==
  \A i \in Instances :
    Done(i) =>
      \A k \in 1..Len(snapshot.orders) :
        StockShort(snapshot.orders[k]) =>
          /\ PlanOccurrences(i, snapshot.orders[k]) = 0
          /\ DistinctIds(snapshot.orders) => Returned(i, snapshot.orders[k])

\* the stock of two stockyards together would hold the order, wagons and a
\* loading point are there, and the order is returned unfulfilled
C14_Witness ==
  /\ Done("A")
  /\ DistinctIds(snapshot.orders)
  /\ \E k \in 1..Len(snapshot.orders) :
       LET o == snapshot.orders[k]
       IN /\ StockShort(o)
          /\ InputTonnage("Bhilai", o.product_name)
               + InputTonnage("Rourkela", o.product_name) >= o.tonnage_required
          /\ o.tonnage_required >= minWagons * getWagonCapacity("BOXN")
          /\ checkWagonAvailability(snapshot.wagons, "BOXN", maxWagons)
          /\ HasLoadingPoint(snapshot, o.product_name)
          /\ Returned("A", o)

\* the sum of the seven rounded components of a cost breakdown
ComponentSum(cb) ==
  cb.base_freight + cb.distance_cost + cb.loading_cost + cb.demurrage + cb.penalty
  + cb.idle_freight + cb.priority_premium

\* C15: Cost breakdown consistency.  For every plan, cost equals
\* costBreakdown.total, and the sum of the seven rounded components differs
\* from costBreakdown.total by less than 4.
C15_CostBreakdownConsistent ==
  \A i \in Instances : \A p \in PlanSet(i) :
    /\ p.cost = p.costBreakdown.total
    /\ ComponentSum(p.costBreakdown) - p.costBreakdown.total < 4
    /\ p.costBreakdown.total - ComponentSum(p.costBreakdown) < 4

\* a returned plan with a penalty and a premium whose rounded components do
\* not add up to the rounded total
C15_Witness ==
  /\ Done("A")
  /\ \E p \in PlanSet("A") :
       /\ ComponentSum(p.costBreakdown) # p.costBreakdown.total
       /\ p.costBreakdown.priority_premium # 0
  /\ \E p \in PlanSet("A") : p.costBreakdown.penalty > 0

\* the orders of a plan whose deadline is past at clock reading t, and those
\* whose deadline is not past and less than atRiskThresholdDays days away
Breached(orders, t) == {k \in 1..Len(orders) : DeadlineMs(orders[k]) < t}
AtRisk(orders, t) ==
  {k \in 1..Len(orders) :
     /\ DeadlineMs(orders[k]) >= t
     /\ DeadlineMs(orders[k]) - t < atRiskThresholdDays * DAY}

\* C16: SLA score.  Every plan is built with slaComplianceScore = max(0, 100 -
\* 30 x (orders whose deadline is past) - 10 x (orders whose deadline is not
\* past and less than 3 days away)), at the clock reading of the step that
\* builds it, and the score is within 0..100.
C16_SLAScore ==
  [][\A i \in Instances :
       Len(inst'[i].rakePlans) > Len(inst[i].rakePlans) =>
         LET plan == inst'[i].rakePlans[Len(inst'[i].rakePlans)]
             score == 100 - 30 * Cardinality(Breached(plan.orders, now))
                          - 10 * Cardinality(AtRisk(plan.orders, now))
         IN /\ plan.slaComplianceScore = (IF score < 0 THEN 0 ELSE score)
            /\ plan.slaComplianceScore \in 0..100]_vars

\* a plan of four orders, all past their deadline: 100 - 120 is floored at 0
C16_Witness ==
  /\ Done("A")
  /\ \E p \in PlanSet("A") : Len(p.orders) = 4 /\ p.slaComplianceScore = 0

\* the product names of the orders the recommender was given, null elements
\* left out, and the demand gap of a product: the tonnage of its orders minus
\* the tonnage of its inventory rows
OrderedProducts ==
  {snapshot.orders[k].product_name :
     k \in {j \in 1..Len(snapshot.orders) : snapshot.orders[j] # NullOrder}}

DemandGap(product) ==
  SumSeq([k \in 1..Len(snapshot.orders) |->
    IF snapshot.orders[k] # NullOrder /\ snapshot.orders[k].product_name = product
    THEN snapshot.orders[k].tonnage_required ELSE 0])
  - SumSeq([k \in 1..Len(snapshot.inventory) |->
    IF snapshot.inventory[k].product_name = product
    THEN snapshot.inventory[k].tonnage_available ELSE 0])

\* the composite score of a product with a demand gap, rounded and clamped
CompositeScore(product, t) ==
  analyzeProductDemand(product,
    groupOrdersByProduct(SelectSeq(snapshot.orders, LAMBDA o : o # NullOrder), product),
    snapshot.inventory, snapshot.wagons, t).priority_score

CarriesLowerPriority(plan) ==
  \E k \in 1..Len(plan.orders) : plan.orders[k].priority_level # "critical"

\* the pools with the stock and the wagons of a plan put back
PutBack(a, plan) ==
  [a EXCEPT
     !.inventory = consumeInventory(@, plan.originStockyard, PlanProduct(plan),
                                    -plan.totalTonnage),
     !.wagons = consumeWagons(@, plan.wagonType, -plan.wagonCount)]

\* createSingleOrderPlan(order) returns a plan on the pools a
SingleFeasible(order, a) ==
  singleOrder([NewInstance EXCEPT !.singles = <<order>>], a, 0).s.unfulfilledOrders = <<>>

\* C18: Critical orders are served first.  No plan carrying an order of lower
\* priority consumes wagons or stock before a critical order had its attempt:
\* whenever Step 4 pushes a critical order to unfulfilledOrders, no plan made
\* before that carries a lower-priority order and holds the wagons or the
\* stock for lack of which the critical order failed.
C18_CriticalServedFirst ==
  [][\A i \in Instances :
       (inst[i].pc = "singles"
        /\ Len(inst'[i].unfulfilledOrders) > Len(inst[i].unfulfilledOrders)
        /\ Head(inst[i].singles).priority_level = "critical")
       => \A k \in 1..Len(inst[i].rakePlans) :
            CarriesLowerPriority(inst[i].rakePlans[k])
            => ~SingleFeasible(Head(inst[i].singles),
                               PutBack(Mine(i), inst[i].rakePlans[k]))]_vars

\* the score of Phase 1 times 100000, for an order with tonnage in tenths of a
\* tonne: whole days until the deadline at time t (no deadline of the inputs
\* is further than 30 days away), the bucket of these days
DaysUntilDeadline(o, t) ==
  CHOOSE d \in -1..30 :
    \/ d * DAY <= o.deadline_date.ms - t /\ o.deadline_date.ms - t < (d + 1) * DAY
    \/ d = -1 /\ o.deadline_date.ms - t < 0
    \/ d = 30 /\ o.deadline_date.ms - t >= 30 * DAY

DeadlineBucket(days) ==
  IF days <= 3 THEN 5 ELSE IF days <= 7 THEN 4 ELSE IF days <= 14 THEN 3
  ELSE IF days <= 30 THEN 2 ELSE 1

PhaseOneScore(o, t) ==
  (CASE o.priority_level = "critical" -> 4 [] o.priority_level = "high" -> 3
     [] o.priority_level = "medium" -> 2 [] o.priority_level = "low" -> 1) * 40000
  + DeadlineBucket(DaysUntilDeadline(o, t)) * 10000
  + (IF o.tonnage_required <= 50000 THEN o.tonnage_required ELSE 50000)

\* out is a permutation of in, non-increasing by score, equal scores in the
\* order of in
SortedByScore(in, out, t) ==
  /\ Len(out) = Len(in)
  /\ \A k \in 1..Len(in) : CountIn(out, in[k]) = CountIn(in, in[k])
  /\ \A j, k \in 1..Len(out) :
       j < k => PhaseOneScore(out[j], t) >= PhaseOneScore(out[k], t)
  /\ \A k \in 1..Len(in) :
       SelectSeq(out, LAMBDA o : PhaseOneScore(o, t) = PhaseOneScore(in[k], t))
       = SelectSeq(in, LAMBDA o : PhaseOneScore(o, t) = PhaseOneScore(in[k], t))

RunningTotal(sel, k) ==
  SumSeq([j \in 1..Len(sel.selected) |->
    IF sel.selected[j] < k THEN sel.orders[sel.selected[j]].tonnage_required ELSE 0])

IsSelected(sel, k) == \E j \in 1..Len(sel.selected) : sel.selected[j] = k

\* the addition of the order at position k brings the total to the target
ReachesTarget(sel, k) ==
  /\ IsSelected(sel, k)
  /\ TargetDen * (RunningTotal(sel, k) + sel.orders[k].tonnage_required)
       >= TargetNum * idealWagons * sel.wagonCapacity

\* the scan has ended before position k
StoppedBefore(sel, k) == \E j \in 1..(k - 1) : ReachesTarget(sel, j)

\* C20: Greedy fill.  selectOrdersForRake returns a subsequence of the
\* remaining orders such that (i) an order the scan comes to is added iff the
\* running total with it is <= maxWagons x capacity, a misfit being skipped,
\* (ii) the scan stops right after the first addition that brings the total
\* to >= 0.9 x idealWagons x capacity, and (iii) totalTonnage is the sum of
\* the selected orders and never exceeds maxWagons x capacity.
C20_GreedyFill ==
  \A i \in Instances :
    LET sel == inst[i].selection
    IN sel # NoSelection =>
         /\ \A j, k \in 1..Len(sel.selected) :
              j < k => sel.selected[j] < sel.selected[k]
         /\ \A j \in 1..Len(sel.selected) : sel.selected[j] \in 1..Len(sel.orders)
         /\ \A k \in 1..Len(sel.orders) :
              IF StoppedBefore(sel, k) THEN ~IsSelected(sel, k)
              ELSE IsSelected(sel, k) <=>
                     RunningTotal(sel, k) + sel.orders[k].tonnage_required
                       <= maxWagons * sel.wagonCapacity
         /\ sel.totalTonnage = RunningTotal(sel, Len(sel.orders) + 1)
         /\ sel.totalTonnage <= maxWagons * sel.wagonCapacity

\* a scan that skipped an order and reached the target with a later one
C20_Witness ==
  \E i \in Instances :
    LET sel == inst[i].selection
    IN \E j, k \in 1..Len(sel.orders) :
         /\ j < k
         /\ ~IsSelected(sel, j) /\ ~StoppedBefore(sel, j)
         /\ ReachesTarget(sel, k)

\* the first type of the product's compatibility list of which minWagons
\* wagons are available in the pool, Null if there is none
FirstCompatibleType(wagons, product) ==
  IF product \notin DOMAIN PRODUCTS THEN Null
  ELSE LET Offers(wt) == \E r \in 1..Len(wagons) :
                           wagons[r].wagon_type = wt /\ wagons[r].available_count >= 50
           first == {k \in 1..Len(PRODUCTS[product]) :
                       Offers(PRODUCTS[product][k])
                       /\ \A j \in 1..(k - 1) : ~Offers(PRODUCTS[product][j])}
       IN IF first = {} THEN Null ELSE PRODUCTS[product][CHOOSE k \in first : TRUE]

\* C21: Wagon-type selection per rake.  For each rake attempted while packing a
\* group, the second and later rakes of the group included, the wagon type
\* used is the first type of the product's compatibility list that has
\* available_count >= minWagons at the moment the rake is attempted; a rake
\* attempted while no compatible type has minWagons fails in any case.
C21_WagonTypePerRake ==
  \A i \in Instances :
    (inst[i].pc = "groups" /\ inst[i].inGroup)
    => LET first == FirstCompatibleType(Mine(i).wagons,
                      inst[i].orderGroups[inst[i].gi][1].product_name)
       IN first # Null => inst[i].wagonType = first

\* the plan is the dedicated rake of one order, made in Step 4
SingleOrderPlan(plan) == Len(plan.orders) = 1 /\ plan.rakeId.clock

\* C22 as stated: an order that was part of a candidate rake rejected during
\* group packing never appears in a returned plan.
C22_Original ==
  \A i \in Instances :
    DistinctIds(snapshot.orders) =>
      \A k \in 1..Len(Plans(i)) : \A j \in 1..Len(Plans(i)[k].orders) :
        Plans(i)[k].orders[j] \notin inst[i].rejected

\* C22: No reconsideration.  An order that was part of a candidate rake
\* rejected during group packing is never part of a group rake later in the
\* run: Step 4 attempts it once more as a single order, so it appears in a
\* returned plan only as the one order of a single-order plan, and else in
\* unfulfilledOrders.
C22_NoReconsideration ==
  \A i \in Instances :
    /\ \A k \in 1..Len(Plans(i)) : \A j \in 1..Len(Plans(i)[k].orders) :
         Plans(i)[k].orders[j] \in inst[i].rejected => SingleOrderPlan(Plans(i)[k])
    /\ (Done(i) /\ DistinctIds(snapshot.orders)) =>
         \A o \in inst[i].rejected :
           PlanOccurrences(i, o) + CountIn(inst[i].unfulfilledOrders, o) = 1

\* a run that returned, as a single-order plan, an order of a rejected
\* candidate rake of two orders
C22_Witness ==
  \E i \in Instances :
    /\ Done(i)
    /\ Cardinality(inst[i].rejected) >= 2
    /\ \E k \in 1..Len(Plans(i)) :
         Plans(i)[k].orders[1] \in inst[i].rejected /\ SingleOrderPlan(Plans(i)[k])

\* the rows of a pool that differ between two states of it
ChangedRows(before, after) == {r \in 1..Len(before) : after[r] # before[r]}

\* the step appended plan to the plans of instance i
Accepted(i, plan) == inst'[i].rakePlans = Append(inst[i].rakePlans, plan)

\* every (stockyard, product) pair and every wagon type of the private pools
\* holds what the snapshot gave it less what the plans of instance i took
PoolsBalanced(i) ==
  /\ Len(Mine(i).inventory) = Len(snapshot.inventory)
  /\ Len(Mine(i).wagons) = Len(snapshot.wagons)
  /\ \A r \in 1..Len(snapshot.inventory) :
       LET stockyard == snapshot.inventory[r].stockyard_name
           product == snapshot.inventory[r].product_name
       IN SumSeq([k \in 1..Len(Mine(i).inventory) |->
            IF Mine(i).inventory[k].stockyard_name = stockyard
               /\ Mine(i).inventory[k].product_name = product
            THEN Mine(i).inventory[k].tonnage_available ELSE 0])
          = InputTonnage(stockyard, product) - PlannedTonnage(i, stockyard, product)
  /\ \A wt \in DOMAIN WAGON_TYPES :
       SumSeq([k \in 1..Len(Mine(i).wagons) |->
         IF Mine(i).wagons[k].wagon_type = wt
         THEN Mine(i).wagons[k].available_count ELSE 0])
       = InputWagons(wt) - PlannedWagons(i, wt)

\* C23: Commit and frame of resource pools.  A step of optimize() that accepts
\* a plan decrements exactly one inventory row, one of the plan's origin
\* stockyard and product, by the plan's totalTonnage and exactly one wagon
\* row, one of the plan's wagon type, by the plan's wagonCount; every other
\* step changes no inventory and no wagon row; no step changes loading points
\* or orders; when optimize() returns, each pool holds its initial value less
\* the sum over the plans that drew on it.
C23_CommitAndFrame ==
  [][\A i \in Instances :
       (inst[i].pc \in {"ready", "groups", "singles"} /\ inst'[i].pc # "threw")
       => LET before == heap[inst[i].mem]
              after == heap'[inst[i].mem]
          IN /\ after.orders = before.orders
             /\ after.loadingPoints = before.loadingPoints
             /\ Len(after.inventory) = Len(before.inventory)
             /\ Len(after.wagons) = Len(before.wagons)
             /\ IF Len(inst'[i].rakePlans) > Len(inst[i].rakePlans)
                THEN \E plan \in {inst'[i].rakePlans[Len(inst'[i].rakePlans)]} :
                       /\ Accepted(i, plan)
                       /\ \E r \in 1..Len(before.inventory) :
                            /\ ChangedRows(before.inventory, after.inventory) = {r}
                            /\ before.inventory[r].stockyard_name = plan.originStockyard
                            /\ before.inventory[r].product_name = PlanProduct(plan)
                            /\ after.inventory[r] =
                                 [before.inventory[r] EXCEPT
                                    !.tonnage_available = @ - plan.totalTonnage]
                       /\ \E r \in 1..Len(before.wagons) :
                            /\ ChangedRows(before.wagons, after.wagons) = {r}
                            /\ before.wagons[r].wagon_type = plan.wagonType
                            /\ after.wagons[r] =
                                 [before.wagons[r] EXCEPT
                                    !.available_count = @ - plan.wagonCount]
                ELSE /\ after.inventory = before.inventory
                     /\ after.wagons = before.wagons
             /\ inst'[i].pc = "done" => PoolsBalanced(i)']_vars

\* a returned run with a plan that drew on the second of two rows of its
\* product and left the first as it was, and with a rejected order
C23_Witness ==
  \E i \in Instances :
    /\ Done(i)
    /\ Len(Plans(i)) >= 1
    /\ inst[i].unfulfilledOrders # <<>>
    /\ Len(snapshot.inventory) = 2
    /\ snapshot.inventory[1].product_name = snapshot.inventory[2].product_name
    /\ Mine(i).inventory[1] = snapshot.inventory[1]
    /\ Mine(i).inventory[2] # snapshot.inventory[2]

\* C25: Plan identifiers are unique.  In the result of one optimize() run, any
\* two distinct rake plans have different rakeId values, the first plans of two
\* groups and two single-order plans of one clock millisecond included.
C25_UniqueRakeIds ==
  \A i \in Instances :
    \A j, k \in 1..Len(Plans(i)) : j # k => Plans(i)[j].rakeId # Plans(i)[k].rakeId

\* the rake_plans rows that hold a plan: its rakeId and its figures
RowsOf(plan) ==
  {r \in 1..Len(page.rake_plans) : page.rake_plans[r] = [id |-> page.rake_plans[r].id] @@ planInsert(plan)}

LinksOfOrder(id) ==
  {l \in 1..Len(page.rake_plan_orders) : page.rake_plan_orders[l].order_id = id}

\* C24: Persistence keeps plans and links consistent.  After generatePlans has
\* completed, every plan optimize() returned has its own rake_plans row, every
\* order of a returned plan has exactly one rake_plan_orders row, pointing at
\* the row of the plan that carries it, the tonnage_allocated of the link rows
\* of each persisted plan sums to its total_tonnage, and the orders set to
\* planned are the orders that have a link row.
C24_PersistenceConsistent ==
  page.pc = "done" =>
    LET plans == Plans("A")
    IN /\ \A k \in 1..Len(plans) : RowsOf(plans[k]) # {}
       /\ \A j, k \in 1..Len(plans) : j # k => RowsOf(plans[j]) \cap RowsOf(plans[k]) = {}
       /\ \A k \in 1..Len(plans) : \A j \in 1..Len(plans[k].orders) :
            /\ Cardinality(LinksOfOrder(plans[k].orders[j].id)) = 1
            /\ \A l \in LinksOfOrder(plans[k].orders[j].id) :
                 \E r \in RowsOf(plans[k]) :
                   page.rake_plan_orders[l].rake_plan_id = page.rake_plans[r].id
       /\ \A r \in 1..Len(page.rake_plans) :
            SumSeq([l \in 1..Len(page.rake_plan_orders) |->
              IF page.rake_plan_orders[l].rake_plan_id = page.rake_plans[r].id
              THEN page.rake_plan_orders[l].tonnage_allocated ELSE 0])
            = page.rake_plans[r].total_tonnage
       /\ page.planned =
            {page.rake_plan_orders[l].order_id : l \in 1..Len(page.rake_plan_orders)}

\* C27: Plans are homogeneous.  The orders of every plan of optimize() share
\* one product name and one destination, the plan's destinations list is that
\* one destination, and its multiDestination flag is false.
C27_PlansHomogeneous ==
  \A i \in Instances :
    \A k \in 1..Len(Plans(i)) :
      LET plan == Plans(i)[k]
      IN /\ \A j \in 1..Len(plan.orders) :
              /\ plan.orders[j].product_name = plan.orders[1].product_name
              /\ plan.orders[j].destination = plan.orders[1].destination
         /\ plan.destinations = <<plan.orders[1].destination>>
         /\ plan.multiDestination = FALSE

\* a returned plan of two orders, while an order of the same product for
\* another destination was in the input
C27_Witness ==
  /\ Done("A")
  /\ \E k \in 1..Len(Plans("A")) :
       /\ Len(Plans("A")[k].orders) >= 2
       /\ \E j \in 1..Len(snapshot.orders) :
            /\ snapshot.orders[j].product_name = Plans("A")[k].orders[1].product_name
            /\ snapshot.orders[j].destination # Plans("A")[k].orders[1].destination

\* C30: Demurrage is never charged.  Every plan of optimize() has a loading
\* time of ceil(totalTonnage / 1000 x 2) <= 20 hours, below the 24 free hours,
\* so that the demurrage of its cost breakdown is 0 and its dispatch is
\* estimated at most 20 hours after the plan was built.
C30_NoDemurrage ==
  \A i \in Instances :
    \A k \in 1..Len(Plans(i)) :
      /\ LoadingHours(Plans(i)[k].totalTonnage) <= 20
      /\ Plans(i)[k].costBreakdown.demurrage = 0
      /\ Plans(i)[k].estimatedDispatchTime <= now + 20 * HOUR

\* a returned plan of 10000 T, which loads for 20 hours
C30_Witness ==
  /\ Done("A")
  /\ \E k \in 1..Len(Plans("A")) :
       /\ Plans("A")[k].totalTonnage = MaxOrderTonnage
       /\ LoadingHours(Plans("A")[k].totalTonnage) = 20
       /\ Plans("A")[k].estimatedDispatchTime >= 20 * HOUR

\* the position of the first order of the product in the orders passed in
FirstOccurrence(product) ==
  CHOOSE k \in 1..Len(snapshot.orders) :
    /\ snapshot.orders[k] # NullOrder
    /\ snapshot.orders[k].product_name = product
    /\ \A j \in 1..(k - 1) :
         snapshot.orders[j] = NullOrder \/ snapshot.orders[j].product_name # product

\* the composite score of a product, neither rounded nor clamped
UnclampedScore(product, t) ==
  priorityScore(product,
    groupOrdersByProduct(SelectSeq(snapshot.orders, LAMBDA o : o # NullOrder), product),
    snapshot.inventory, snapshot.wagons, t)

\* C29: Recommender score saturates.  Every product with a positive demand
\* gap has a composite score of at least 325, so that every recommendation has
\* priority_score 100, every product with a positive demand gap is
\* recommended, and the recommendations are in the order in which the
\* products first occur in the orders.
C29_ScoreSaturates ==
  recommender.pc = "done" =>
    LET recs == recommender.recommendations
    IN /\ \A product \in OrderedProducts :
            DemandGap(product) > 0 =>
              /\ UnclampedScore(product, now).num >= 325 * UnclampedScore(product, now).den
              /\ \E k \in 1..Len(recs) : recs[k].product_name = product
       /\ \A k \in 1..Len(recs) : recs[k].priority_score = 100
       /\ \A j, k \in 1..Len(recs) :
            j < k => FirstOccurrence(recs[j].product_name)
                       < FirstOccurrence(recs[k].product_name)

\* two products recommended, the first of them on one order of low priority
\* due in more than two weeks, the second on an order of a higher priority
C29_Witness ==
  /\ recommender.pc = "done"
  /\ Len(recommender.recommendations) >= 2
  /\ recommender.recommendations[1].reasoning.avg_order_priority = 100
  /\ recommender.recommendations[1].reasoning.urgency_score = 10
  /\ recommender.recommendations[2].reasoning.avg_order_priority > 100

\* the candidate rake of the next iteration of the packing loop, and of the
\* next single-order attempt: tonnage, wagon capacity and wagon count
GroupCandidates(i) ==
  IF inst[i].pc = "groups" /\ inst[i].inGroup
  THEN LET wagonCapacity == getWagonCapacity(inst[i].wagonType)
           sel == selectOrdersForRake(inst[i].remainingOrders, wagonCapacity)
       IN IF Len(sel.selectedOrders) = 0 THEN {}
          ELSE {[ totalTonnage |-> sel.totalTonnage, wagonCapacity |-> wagonCapacity,
                  wagonCount |-> RakeWagonCount(sel.totalTonnage, wagonCapacity) ]}
  ELSE {}

SingleCandidates(i) ==
  IF inst[i].pc = "singles" /\ inst[i].singles # <<>>
  THEN LET order == Head(inst[i].singles)
           wagonType == selectOptimalWagonType(Mine(i).wagons, order.product_name)
           wagonCapacity == getWagonCapacity(wagonType)
       IN IF order.tonnage_required < MinRakeTonnage \/ wagonType = Null THEN {}
          ELSE {[ totalTonnage |-> order.tonnage_required,
                  wagonCapacity |-> wagonCapacity,
                  wagonCount |-> RakeWagonCount(order.tonnage_required, wagonCapacity) ]}
  ELSE {}

IterationBound(i) ==
  inst[i].pc \in {"groups", "singles", "done"} =>
    IF inst[i].inGroup
    THEN inst[i].iterations + Len(inst[i].remainingOrders)
           <= Len(inst[i].orderGroups[inst[i].gi])
    ELSE inst[i].gi >= 2 =>
           inst[i].iterations <= Len(inst[i].orderGroups[inst[i].gi - 1])

\* C26: Termination.  On every validated snapshot optimize() terminates, and
\* the packing loop of createRakePlansForGroup performs at most as many
\* iterations as the group has orders: every iteration breaks out of the loop
\* or removes at least one order from the remaining pool.
C26_Termination ==
  /\ [](IterationBound("A"))
  /\ (inst["A"].pc = "ready") ~> (inst["A"].pc \in {"done", "threw"})

\* a returned run whose last group took two iterations
C26_Witness ==
  /\ inst["A"].pc = "done"
  /\ inst["A"].iterations >= 2

====
